---- MODULE Spec2Model ----
(***************************************************************************)
(* Model of spark-mcp: the data access layer over the Spark Desktop        *)
(* SQLite stores (src/spark_mcp/database.py), the PDF operations           *)
(* (src/spark_mcp/pdf_operations.py) and the template files                *)
(* (src/spark_mcp/config.py).                                              *)
(*                                                                         *)
(* The stores are foreign-owned and read-only for the program: a behaviour *)
(* starts from one dataset drawn in Init and every action is one public    *)
(* operation run to completion; its return value is left in `result`.      *)
(***************************************************************************)
EXTENDS Integers, Sequences, FiniteSets, TLC

VARIABLES
    messages,    \* table `messages` of messages.sqlite, in rowid (pk) order
    fts,         \* table `messagesfts` of search_fts5.sqlite, in rowid order
    events,      \* table RDCALAPIEvent of calendarsapi.sqlite, in rowid order
    attendees,   \* table RDCALAPIAttendee: sequence of refEventPK values
    attachments, \* table messageAttachment of messages.sqlite, in rowid order
    cache,       \* the attachment files that exist under messagesData
    conns,       \* the databases with a connection that is open
    dbFiles,     \* the database files that exist under the Spark directory
    server,      \* the server process: "starting", "failed" or "serving"
    nowMs,       \* the wall clock, datetime.now(), in milliseconds
    doc,         \* the PDF at filePath: sequence of pages
    templates,   \* the templates directory: file stem -> template data
    result       \* what the last operation returned

vars ==
    <<messages, fts, events, attendees, attachments, cache, conns, dbFiles, server,
      nowMs, doc, templates, result>>

----------------------------------------------------------------------------
(* Bounds of the model *)

MaxStore == 3        \* rows of `messages` in a dataset
MaxFts == 3          \* rows of `messagesfts` in a dataset
MaxLimit == 2        \* largest `limit` argument
MaxOffset == 2       \* largest `offset` argument
MaxEvents == 3       \* rows of `RDCALAPIEvent` in a dataset
MaxPages == 2        \* pages of a PDF document
MaxFields == 2       \* fields of a template

(* Program constants *)

Day == 86400                  \* seconds per day in the cutoff computations
PrepDurationSecs == 1800      \* "> 30 min" threshold of find_events_needing_prep
StatusCancelled == 3          \* RDCALAPIEvent.status excluded by find_events_needing_prep
SigMargin == 50               \* default signature margin
DefaultSigWidth == 150        \* default signature width of a template field

----------------------------------------------------------------------------
(* Generic helpers *)

Min(a, b) == IF a <= b THEN a ELSE b
Max(a, b) == IF a >= b THEN a ELSE b

Take(s, n) == SubSeq(s, 1, Min(Max(n, 0), Len(s)))
Drop(s, n) == SubSeq(s, Min(Max(n, 0), Len(s)) + 1, Len(s))

Range(s) == {s[i] : i \in 1..Len(s)}

RECURSIVE SeqOfSet(_, _)
\* the members of the index set S of pool, in ascending index order
SeqOfSet(pool, S) ==
    IF S = {} THEN <<>>
    ELSE LET i == CHOOSE x \in S : \A y \in S : x <= y
         IN <<pool[i]>> \o SeqOfSet(pool, S \ {i})

\* ORDER BY: the rows of s in ascending order of keys[i], the key of row i;
\* rows with equal keys stay in scan order
SortByKeys(s, keys) ==
    LET Pos(i) == 1 + Cardinality({j \in 1..Len(s) :
                        keys[j] < keys[i] \/ (keys[j] = keys[i] /\ j < i)})
    IN [p \in 1..Len(s) |-> s[CHOOSE i \in 1..Len(s) : Pos(i) = p]]

----------------------------------------------------------------------------
(* SQL values.  NULL of an integer column is NullInt; a text is a sequence *)
(* of one-character strings so that LIKE can search it.                    *)

NullInt == -1

Fold(c) ==
    CASE c = "M" -> "m" [] c = "T" -> "t" [] c = "I" -> "i" [] c = "D" -> "d"
      [] OTHER -> c

\* text LIKE '%pat%': a substring test, case-insensitive for ASCII letters
LikeContains(text, pat) ==
    \E i \in 1..(Len(text) - Len(pat) + 1) :
        \A j \in 1..Len(pat) : Fold(text[i + j - 1]) = Fold(pat[j])

mtid == <<"m", "t", "i", "d">>
mtskp == <<"m", "t", "s", "k", "p">>
mtes == <<"m", "t", "e", "s">>

\* JSON values of the metadata blob
JInt(n) == [t |-> "int", n |-> n]
JStr(s) == [t |-> "str", s |-> s]
JNull == [t |-> "null"]

(***************************************************************************)
(* The metadata blob `meta`.  isNull: the column is NULL.  Otherwise the   *)
(* text is the JSON rendering of the key/value pairs in `pairs`; wf says   *)
(* whether the text parses as a JSON object (a malformed text still shows  *)
(* its keys and strings to LIKE).  The empty string has no pairs and does  *)
(* not parse.                                                              *)
(***************************************************************************)
Meta(wf, pairs) == [isNull |-> FALSE, wf |-> wf, pairs |-> pairs]
MetaNull == [isNull |-> TRUE, wf |-> FALSE, pairs |-> <<>>]
MetaEmpty == Meta(FALSE, <<>>)

Pair(k, v) == [k |-> k, v |-> v]

\* the strings that occur in the text of the blob
MetaStrings(meta) ==
    {meta.pairs[i].k : i \in 1..Len(meta.pairs)}
        \cup {meta.pairs[i].v.s : i \in {j \in 1..Len(meta.pairs) : meta.pairs[j].v.t = "str"}}

\* SQL: meta LIKE '%mtid%'  ->  "T", "F" or "N" (NULL)
MetaLikeMtid(meta) ==
    IF meta.isNull THEN "N"
    ELSE IF \E s \in MetaStrings(meta) : LikeContains(s, mtid) THEN "T" ELSE "F"

\* SQL: json_extract(meta, '$.key')  ->  a JSON value, JNull for SQL NULL,
\* or "error" (sqlite raises "malformed JSON")
JsonExtract(meta, key) ==
    IF meta.isNull THEN JNull
    ELSE IF ~meta.wf THEN [t |-> "error"]
    ELSE IF \E i \in 1..Len(meta.pairs) : meta.pairs[i].k = key
         THEN meta.pairs[CHOOSE i \in 1..Len(meta.pairs) :
                           /\ meta.pairs[i].k = key
                           /\ \A j \in 1..(i-1) : meta.pairs[j].k # key].v
         ELSE JNull

\* Python: json.loads(row['meta']) if row['meta'] else {}, with a
\* JSONDecodeError giving {}: the set of keys of the parsed dict
ParsedKeys(meta) ==
    IF meta.isNull \/ meta = MetaEmpty THEN {}
    ELSE IF ~meta.wf THEN {}
    ELSE {meta.pairs[i].k : i \in 1..Len(meta.pairs)}

----------------------------------------------------------------------------
(* WHERE clauses.  A clause is the list of its AND-ed fragments, each with *)
(* the number of `?` it holds; the parameters are bound by position.       *)

Frag(sql, np) == [sql |-> sql, np |-> np]

RECURSIVE ParamsBefore(_, _)
\* number of `?` in the fragments before fragment k
ParamsBefore(where, k) ==
    IF k <= 1 THEN 0 ELSE where[k - 1].np + ParamsBefore(where, k - 1)

Tri(b) == IF b THEN "T" ELSE "F"

\* the value of one fragment on one row of `messages`: "T", "F", "N" (NULL)
\* or "E" (the statement raises); ps are the parameters bound to it
EvalFrag(sql, ps, row) ==
    CASE sql = "meta LIKE '%mtid%'" -> MetaLikeMtid(row.meta)
      [] sql = "(meta NOT LIKE '%mtid%' OR meta IS NULL)" ->
            IF row.meta.isNull THEN "T" ELSE Tri(MetaLikeMtid(row.meta) = "F")
      [] sql = "json_extract(meta, '$.mtskp') = 1" ->
            LET v == JsonExtract(row.meta, mtskp)
            IN IF v.t = "error" THEN "E"
               ELSE IF v.t = "null" THEN "N"
               ELSE Tri(v.t = "int" /\ v.n = 1)
      [] sql = "json_extract(meta, '$.mtes') IS NOT NULL" ->
            LET v == JsonExtract(row.meta, mtes)
            IN IF v.t = "error" THEN "E" ELSE Tri(v.t # "null")
      [] sql = "receivedDate >= ?" -> Tri(row.receivedDate >= ps[1])
      [] sql = "receivedDate <= ?" -> Tri(row.receivedDate <= ps[1])
      [] sql = "inInbox = 1" -> Tri(row.inInbox = 1)
      [] sql = "inSent = 1" -> Tri(row.inSent = 1)
      [] sql = "inDrafts = 1" -> Tri(row.inDrafts = 1)
      [] sql = "unseen = 1" -> Tri(row.unseen = 1)
      [] sql = "messageFrom LIKE ?" -> Tri(LikeContains(row.messageFrom, ps[1]))
      [] sql = "pk IN (?)" -> Tri(row.pk \in Range(ps))

RECURSIVE EvalFrom(_, _, _, _)
\* sqlite tests the AND-ed terms of a WHERE in order and leaves the row at
\* the first term that is not true, so a later term is not evaluated
EvalFrom(where, params, row, k) ==
    IF k > Len(where) THEN "T"
    ELSE LET n == ParamsBefore(where, k)
             v == EvalFrag(where[k].sql, SubSeq(params, n + 1, n + where[k].np), row)
         IN IF v = "T" THEN EvalFrom(where, params, row, k + 1)
            ELSE IF v = "E" THEN "E" ELSE "F"

EvalWhere(where, params, row) == EvalFrom(where, params, row, 1)

\* the scan raises if the WHERE raises on some row
WhereRaises(where, params, table) ==
    \E i \in 1..Len(table) : EvalWhere(where, params, table[i]) = "E"

\* the rows the WHERE accepts, in scan (rowid) order
Matching(where, params, table) ==
    LET Ok(row) == EvalWhere(where, params, row) = "T"
    IN SelectSeq(table, Ok)

\* ORDER BY receivedDate DESC
OrderByReceivedDesc(rows) ==
    SortByKeys(rows, [i \in 1..Len(rows) |-> 0 - rows[i].receivedDate])

\* mutant: the OFFSET is dropped from the page query
LimitOffset_NoOffset(rows, limit, offset) == Take(rows, limit)

\* LIMIT ? OFFSET ? with a non-negative limit
LimitOffset(rows, limit, offset) == Take(Drop(rows, offset), limit)

(***************************************************************************)
(* ORDER BY receivedDate DESC LIMIT n: sqlite keeps the best n rows in a   *)
(* sorter while it scans, and computes the result columns of a row when    *)
(* the row enters the sorter.  Row i enters if fewer than n earlier rows   *)
(* sort before it.  With n = 0 nothing is scanned.                         *)
(***************************************************************************)
EntersSorter(rows, i, n) ==
    Cardinality({j \in 1..(i - 1) : rows[j].receivedDate >= rows[i].receivedDate}) < n

----------------------------------------------------------------------------
(* Arguments.  An ISO date argument is None (NoDate), a string that        *)
(* datetime.fromisoformat rejects (BadDate), or the date of day d >= 0.    *)

NoDate == -1
BadDate == -2

\* int(datetime.fromisoformat(d).timestamp())
IsoToTs(d) == d * Day

\* the value None of an optional text argument
NoText == <<>>

\* an operation that ends in an exception
Raised == [raised |-> TRUE]

----------------------------------------------------------------------------
(* SparkDatabase._get_text_lengths: messagePk -> length(searchBody) for    *)
(* the rows of messagesfts whose messagePk is in pks; the dict             *)
(* comprehension keeps the last row of a messagePk.                        *)

GetTextLengths(pks, ftsT) ==
    LET hit == {i \in 1..Len(ftsT) : ftsT[i].messagePk \in pks}
        last(pk) == CHOOSE i \in hit :
                        /\ ftsT[i].messagePk = pk
                        /\ \A j \in hit : ftsT[j].messagePk = pk => j <= i
    IN [pk \in {ftsT[i].messagePk : i \in hit} |-> ftsT[last(pk)].len]

\* dict.get(pk, 0)
DictGet(d, k, default) == IF k \in DOMAIN d THEN d[k] ELSE default

----------------------------------------------------------------------------
(* SparkDatabase.list_transcripts *)

\* mutant: the kept filter is left out of the clause
ListTranscriptsWhere_NoKept(a) ==
    <<Frag("meta LIKE '%mtid%'", 0)>>
    \o (IF a.start_date # NoDate THEN <<Frag("receivedDate >= ?", 1)>> ELSE <<>>)
    \o (IF a.end_date # NoDate THEN <<Frag("receivedDate <= ?", 1)>> ELSE <<>>)
    \o (IF ~a.include_ad_hoc
        THEN <<Frag("json_extract(meta, '$.mtes') IS NOT NULL", 0)>> ELSE <<>>)

ListTranscriptsWhere(a) ==
    <<Frag("meta LIKE '%mtid%'", 0)>>
    \o (IF a.only_kept THEN <<Frag("json_extract(meta, '$.mtskp') = 1", 0)>> ELSE <<>>)
    \o (IF a.start_date # NoDate THEN <<Frag("receivedDate >= ?", 1)>> ELSE <<>>)
    \o (IF a.end_date # NoDate THEN <<Frag("receivedDate <= ?", 1)>> ELSE <<>>)
    \o (IF ~a.include_ad_hoc
        THEN <<Frag("json_extract(meta, '$.mtes') IS NOT NULL", 0)>> ELSE <<>>)

DateParams(a) ==
    (IF a.start_date # NoDate THEN <<IsoToTs(a.start_date)>> ELSE <<>>)
    \o (IF a.end_date # NoDate THEN <<IsoToTs(a.end_date)>> ELSE <<>>)

\* the total of a list operation: SELECT COUNT(*) ... WHERE <the same clause>
CountQuery(where, params, table) == Len(Matching(where, params, table))

\* the page of a list operation: ... ORDER BY receivedDate DESC LIMIT ? OFFSET ?
PageQuery(where, params, table, limit, offset) ==
    LimitOffset(OrderByReceivedDesc(Matching(where, params, table)), limit, offset)

\* the result columns of list_transcripts hold json_extract(meta, ...), which
\* raises on a row whose meta is not JSON when the row enters the sorter
TranscriptPageRaises(where, params, table, limit, offset) ==
    LET rows == Matching(where, params, table)
    IN \E i \in 1..Len(rows) :
          /\ EntersSorter(rows, i, limit + offset)
          /\ JsonExtract(rows[i].meta, mtid).t = "error"

TranscriptItem(row, lengths) ==
    [messagePk |-> row.pk,
     transcriptId |-> JsonExtract(row.meta, mtid),
     isCalendarEvent |-> JsonExtract(row.meta, mtes).t # "null",
     textLength |-> DictGet(lengths, row.pk, 0),
     hasFullText |-> DictGet(lengths, row.pk, 0) > 0]

list_transcripts(a, table, ftsT) ==
    IF a.start_date = BadDate \/ a.end_date = BadDate THEN Raised
    ELSE LET where == ListTranscriptsWhere(a)
             params == DateParams(a)
         IN IF WhereRaises(where, params, table) THEN Raised
            ELSE IF TranscriptPageRaises(where, params, table, a.limit, a.offset)
            THEN Raised
            ELSE LET total == CountQuery(where, params, table)
                     rows == PageQuery(where, params, table, a.limit, a.offset)
                     lengths == GetTextLengths({rows[i].pk : i \in 1..Len(rows)}, ftsT)
                 IN [raised |-> FALSE,
                     total |-> total,
                     items |-> [i \in 1..Len(rows) |-> TranscriptItem(rows[i], lengths)]]

----------------------------------------------------------------------------
(* SparkDatabase.list_emails *)

ListEmailsWhere(a) ==
    <<Frag("(meta NOT LIKE '%mtid%' OR meta IS NULL)", 0)>>
    \o (IF a.folder = "inbox" THEN <<Frag("inInbox = 1", 0)>>
        ELSE IF a.folder = "sent" THEN <<Frag("inSent = 1", 0)>>
        ELSE IF a.folder = "drafts" THEN <<Frag("inDrafts = 1", 0)>>
        ELSE <<>>)
    \o (IF a.unread_only THEN <<Frag("unseen = 1", 0)>> ELSE <<>>)
    \o (IF a.start_date # NoDate THEN <<Frag("receivedDate >= ?", 1)>> ELSE <<>>)
    \o (IF a.end_date # NoDate THEN <<Frag("receivedDate <= ?", 1)>> ELSE <<>>)
    \o (IF a.sender # NoText THEN <<Frag("messageFrom LIKE ?", 1)>> ELSE <<>>)

ListEmailsParams(a) ==
    DateParams(a) \o (IF a.sender # NoText THEN <<a.sender>> ELSE <<>>)

EmailItem(row) ==
    [messagePk |-> row.pk,
     unread |-> row.unseen = 1,
     conversationPk |-> row.conversationPk]

list_emails(a, table) ==
    IF a.start_date = BadDate \/ a.end_date = BadDate THEN Raised
    ELSE LET where == ListEmailsWhere(a)
             params == ListEmailsParams(a)
             total == CountQuery(where, params, table)
             rows == PageQuery(where, params, table, a.limit, a.offset)
         IN [raised |-> FALSE,
             total |-> total,
             items |-> [i \in 1..Len(rows) |-> EmailItem(rows[i])]]

----------------------------------------------------------------------------
(* The full-text queries.  A row of messagesfts is [messagePk, terms, rank,*)
(* len]: terms are the queries its searchBody MATCHes, rank the score the  *)
(* engine gives it (lower is better), len is length(searchBody).           *)

\* mutant: the full-text query has no LIMIT
FtsQuery_NoLimit(ftsT, query, n) ==
    LET Hit(row) == query \in row.terms
        hits == SelectSeq(ftsT, Hit)
    IN SortByKeys(hits, [i \in 1..Len(hits) |-> hits[i].rank])

\* SELECT messagePk, ..., rank FROM messagesfts WHERE searchBody MATCH ?
\* ORDER BY rank LIMIT ?
FtsQuery(ftsT, query, n) ==
    LET Hit(row) == query \in row.terms
        hits == SelectSeq(ftsT, Hit)
    IN Take(SortByKeys(hits, [i \in 1..Len(hits) |-> hits[i].rank]), n)

ActionQuery == "action"

PkList(rows) == [i \in 1..Len(rows) |-> rows[i].messagePk]

\* mutant: the rank is passed on without the negation
SearchItem_RankAsScore(ftsRow) ==
    [messagePk |-> ftsRow.messagePk, relevanceScore |-> ftsRow.rank]

\* an entry of the results: 'relevanceScore': -fts_row['rank']
SearchItem(ftsRow) ==
    [messagePk |-> ftsRow.messagePk, relevanceScore |-> 0 - ftsRow.rank]

\* mutant: the join emits every hit, in the metadata map or not
JoinHits_NoLookup(ftsRows, metaPks, limit) ==
    LET kept == Take(ftsRows, limit)
    IN [i \in 1..Len(kept) |-> SearchItem(kept[i])]

\* the join loop of search_emails and search_transcripts: the hits whose pk
\* is in the metadata map, in hit order, until `limit` results are there
JoinHits(ftsRows, metaPks, limit) ==
    LET In(row) == row.messagePk \in metaPks
        kept == Take(SelectSeq(ftsRows, In), limit)
    IN [i \in 1..Len(kept) |-> SearchItem(kept[i])]

SearchEmailsWhere(a, n) ==
    <<Frag("pk IN (?)", n), Frag("(meta NOT LIKE '%mtid%' OR meta IS NULL)", 0)>>
    \o (IF a.start_date # NoDate THEN <<Frag("receivedDate >= ?", 1)>> ELSE <<>>)
    \o (IF a.end_date # NoDate THEN <<Frag("receivedDate <= ?", 1)>> ELSE <<>>)

SearchTranscriptsWhere(a, n) ==
    <<Frag("pk IN (?)", n), Frag("meta LIKE '%mtid%'", 0)>>
    \o (IF a.start_date # NoDate THEN <<Frag("receivedDate >= ?", 1)>> ELSE <<>>)
    \o (IF a.end_date # NoDate THEN <<Frag("receivedDate <= ?", 1)>> ELSE <<>>)

\* the part search_emails and search_transcripts share; they differ in the
\* clause they build
SearchJoin(a, table, ftsT, emails) ==
    LET ftsRows == FtsQuery(ftsT, a.query, a.limit * 2)
    IN IF ftsRows = <<>> THEN [raised |-> FALSE, total |-> 0, items |-> <<>>]
       ELSE IF a.start_date = BadDate \/ a.end_date = BadDate THEN Raised
       ELSE LET where == IF emails THEN SearchEmailsWhere(a, Len(ftsRows))
                         ELSE SearchTranscriptsWhere(a, Len(ftsRows))
                params == PkList(ftsRows) \o DateParams(a)
                metaRows == Matching(where, params, table)
                items == JoinHits(ftsRows, {metaRows[i].pk : i \in 1..Len(metaRows)},
                                  a.limit)
            IN [raised |-> FALSE, total |-> Len(items), items |-> items]

search_emails(a, table, ftsT) == SearchJoin(a, table, ftsT, TRUE)

search_transcripts(a, table, ftsT) == SearchJoin(a, table, ftsT, FALSE)

----------------------------------------------------------------------------
(* SparkDatabase.find_action_items *)

\* int(datetime.now().timestamp() - days * 86400)
CutoffTs(now, days) == (now \div 1000) - days * Day

\* mutant: the metadata query has no cutoff
ActionRows_NoCutoff(pks, cutoff, table) ==
    LET InPk(row) == row.pk \in Range(pks)
        Email(row) == row.meta.isNull \/ MetaLikeMtid(row.meta) = "F"
        Ok(row) == InPk(row) /\ Email(row)
    IN OrderByReceivedDesc(SelectSeq(table, Ok))

\* the metadata query of find_action_items
ActionRows(pks, cutoff, table) ==
    LET InPk(row) == row.pk \in Range(pks)
        Recent(row) == row.receivedDate >= cutoff
        Email(row) == row.meta.isNull \/ MetaLikeMtid(row.meta) = "F"
        Ok(row) == InPk(row) /\ Recent(row) /\ Email(row)
    IN OrderByReceivedDesc(SelectSeq(table, Ok))

\* fts_map = {row['messagePk']: row for row in fts_rows}: the last hit of a pk
FtsMap(ftsRows) ==
    [pk \in Range(PkList(ftsRows)) |->
        ftsRows[CHOOSE i \in 1..Len(ftsRows) :
                   /\ ftsRows[i].messagePk = pk
                   /\ \A j \in 1..Len(ftsRows) : ftsRows[j].messagePk = pk => j <= i]]

find_action_items(a, table, ftsT, now) ==
    LET ftsRows == FtsQuery(ftsT, ActionQuery, a.limit * 2)
    IN IF ftsRows = <<>> THEN [raised |-> FALSE, total |-> 0, items |-> <<>>]
       ELSE LET metaRows == ActionRows(PkList(ftsRows), CutoffTs(now, a.days), table)
                ftsMap == FtsMap(ftsRows)
                emails == [i \in 1..Len(metaRows) |-> SearchItem(ftsMap[metaRows[i].pk])]
                \* emails.sort(key=relevanceScore, reverse=True)
                sorted == SortByKeys(emails,
                              [i \in 1..Len(emails) |-> 0 - emails[i].relevanceScore])
            IN [raised |-> FALSE, total |-> Len(emails), items |-> Take(sorted, a.limit)]

----------------------------------------------------------------------------
(* SparkDatabase.find_pending_responses *)

\* SQL `=` on two integer columns: NULL if either side is NULL
SqlEq(x, y) == x # NullInt /\ y # NullInt /\ x = y

\* mutant: the subquery looks for an earlier sent row instead of a later one
HasLaterSentReply_Earlier(m, table) ==
    \E i \in 1..Len(table) :
        /\ SqlEq(table[i].conversationPk, m.conversationPk)
        /\ table[i].inSent = 1
        /\ table[i].receivedDate < m.receivedDate

\* the NOT EXISTS subquery: a sent row of the same conversation, received later
HasLaterSentReply(m, table) ==
    \E i \in 1..Len(table) :
        /\ SqlEq(table[i].conversationPk, m.conversationPk)
        /\ table[i].inSent = 1
        /\ table[i].receivedDate > m.receivedDate

find_pending_responses(a, table, now) ==
    LET cutoff == CutoffTs(now, a.days)
        Ok(m) == /\ m.inInbox = 1
                 /\ m.receivedDate >= cutoff
                 /\ (m.meta.isNull \/ MetaLikeMtid(m.meta) = "F")
                 /\ ~HasLaterSentReply(m, table)
        rows == Take(OrderByReceivedDesc(SelectSeq(table, Ok)), a.limit)
    IN [raised |-> FALSE,
        total |-> Len(rows),
        items |-> [i \in 1..Len(rows) |->
                      [messagePk |-> rows[i].pk, conversationPk |-> rows[i].conversationPk]]]

----------------------------------------------------------------------------
(* SparkDatabase.get_transcript and get_statistics *)

NoPk == -1      \* message_pk = None
NoId == <<>>    \* transcript_id = None

NotFound == [raised |-> FALSE, found |-> FALSE]

\* SELECT pk FROM messages WHERE json_extract(meta, '$.mtid') = ? ; fetchone():
\* the scan stops at the first match and raises on a malformed meta before it
LookupByTranscriptId(tid, table) ==
    LET Is(i) == LET v == JsonExtract(table[i].meta, mtid)
                 IN v.t = "str" /\ v.s = tid
        Bad(i) == JsonExtract(table[i].meta, mtid).t = "error"
        stop == {i \in 1..Len(table) : Is(i) \/ Bad(i)}
    IN IF stop = {} THEN [raised |-> FALSE, pk |-> NoPk]
       ELSE LET i == CHOOSE x \in stop : \A y \in stop : x <= y
            IN IF Bad(i) THEN [raised |-> TRUE, pk |-> NoPk]
               ELSE [raised |-> FALSE, pk |-> table[i].pk]

\* the test of get_transcript: 'mtid' in metadata
HasMtidKey(meta) == mtid \in ParsedKeys(meta)

GetTranscriptByPk(pk, table, ftsT) ==
    IF pk = NoPk \/ pk = 0 THEN NotFound
    ELSE IF ~\E i \in 1..Len(table) : table[i].pk = pk THEN NotFound
    ELSE LET row == table[CHOOSE i \in 1..Len(table) : table[i].pk = pk]
         IN IF ~HasMtidKey(row.meta) THEN NotFound
            ELSE [raised |-> FALSE, found |-> TRUE, messagePk |-> row.pk,
                  transcriptId |-> JsonExtract(row.meta, mtid),
                  isKept |-> JsonExtract(row.meta, mtskp) = JInt(1),
                  hasText |-> \E i \in 1..Len(ftsT) : ftsT[i].messagePk = pk]

get_transcript(a, table, ftsT) ==
    IF (a.message_pk = NoPk \/ a.message_pk = 0) /\ a.transcript_id # NoId
    THEN LET look == LookupByTranscriptId(a.transcript_id, table)
         IN IF look.raised THEN Raised
            ELSE IF look.pk = NoPk THEN NotFound
            ELSE GetTranscriptByPk(look.pk, table, ftsT)
    ELSE GetTranscriptByPk(a.message_pk, table, ftsT)

\* the rows get_statistics counts: WHERE meta LIKE '%mtid%'
StatisticsRows(table) ==
    LET Is(row) == MetaLikeMtid(row.meta) = "T"
    IN SelectSeq(table, Is)

get_statistics(table, ftsT) ==
    LET rows == StatisticsRows(table)
        Count(P(_)) == Cardinality({i \in 1..Len(rows) : P(rows[i])})
        Bad(row) == JsonExtract(row.meta, mtes).t = "error"
        Cal(row) == JsonExtract(row.meta, mtes).t # "null"
        Kept(row) == JsonExtract(row.meta, mtskp) = JInt(1)
        lengths == GetTextLengths({rows[i].pk : i \in 1..Len(rows)}, ftsT)
    IN IF Count(Bad) > 0 THEN Raised
       ELSE [raised |-> FALSE,
             totalTranscripts |-> Len(rows),
             calendarMeetings |-> Count(Cal),
             adHocMeetings |-> Len(rows) - Count(Cal),
             keptTranscripts |-> Count(Kept),
             deletedTranscripts |-> Len(rows) - Count(Kept),
             withFullText |-> Cardinality({pk \in DOMAIN lengths : lengths[pk] > 0})]

----------------------------------------------------------------------------
(* Datasets.  The rows a dataset is drawn from; a dataset keeps pk order.  *)

bob == <<"b", "o", "b">>
alice == <<"a", "l", "i", "c", "e">>
t1 == <<"t", "1">>
t2 == <<"t", "2">>
t3 == <<"t", "3">>
note == <<"n", "o", "t", "e">>

MetaPlain == Meta(TRUE, <<Pair(note, JStr(bob))>>)
MetaKept == Meta(TRUE, <<Pair(mtid, JStr(t1)), Pair(mtskp, JInt(1)), Pair(mtes, JStr(note))>>)
MetaDeleted == Meta(TRUE, <<Pair(mtid, JStr(t2)), Pair(mtskp, JInt(0))>>)
\* the word mtid in a value, not as a key
MetaValueOnly == Meta(TRUE, <<Pair(note, JStr(mtid))>>)
\* the key in upper case: LIKE folds case, the JSON key does not match
MetaUpper == Meta(TRUE, <<Pair(<<"M", "T", "I", "D">>, JStr(t3)), Pair(mtskp, JInt(1))>>)
\* a truncated blob that still shows "mtid"
MetaBadMtid == Meta(FALSE, <<Pair(mtid, JStr(t3))>>)

Msg(pk, meta, date, inbox, sent, unseen, from, conv) ==
    [pk |-> pk, meta |-> meta, receivedDate |-> date, inInbox |-> inbox,
     inSent |-> sent, inDrafts |-> 0, unseen |-> unseen, messageFrom |-> from,
     conversationPk |-> conv]

NowMs == 20 * Day * 1000 + 700

MsgPool ==
    << Msg(1, MetaNull, 19 * Day + 100, 1, 0, 1, alice, 1),
       Msg(2, MetaPlain, 19 * Day + 200, 0, 1, 0, bob, 1),
       Msg(3, MetaKept, 18 * Day, 1, 0, 0, bob, 2),
       Msg(4, MetaDeleted, 19 * Day + 100, 1, 0, 1, bob, NullInt),
       Msg(5, MetaEmpty, 19 * Day, 1, 0, 0, bob, NullInt),
       Msg(6, MetaValueOnly, 17 * Day, 1, 0, 1, alice, 3),
       Msg(7, MetaBadMtid, 19 * Day + 300, 1, 0, 0, alice, 2),
       Msg(8, MetaUpper, 18 * Day + 50, 0, 0, 0, bob, 3),
       Msg(9, MetaPlain, 19 * Day + 300, 1, 0, 1, alice, 1) >>

FtsRow(pk, terms, rank, len) ==
    [messagePk |-> pk, terms |-> terms, rank |-> rank, len |-> len]

\* pk 99 is a message the transactional store never holds
FtsPool ==
    << FtsRow(1, {"invoice", "action"}, 0 - 5, 10),
       FtsRow(3, {"invoice", "notes"}, 0 - 4, 0),
       FtsRow(9, {"invoice", "action"}, 0 - 3, 7),
       FtsRow(99, {"invoice", "notes", "action"}, 0 - 6, 4),
       FtsRow(4, {"notes", "action"}, 0 - 2, 3) >>

\* the datasets of at most n rows of a pool
Datasets(pool, n) ==
    {SeqOfSet(pool, S) : S \in {T \in SUBSET (1..Len(pool)) : Cardinality(T) <= n}}

NoResult == [op |-> "none"]

\* the templates directory: a file <name>.json per name, or none
TemplateNames == {"nda", "w9"}
NoFile == [exists |-> FALSE]
EmptyTemplates == [n \in TemplateNames |-> NoFile]


----------------------------------------------------------------------------
(* Operations of the data access layer as actions *)

\* The host delivers one invocation at a time and awaits its response before
\* the next: an operation starts when no response is outstanding and leaves
\* its return value in `result`; Respond hands it to the host.
Call(op, a, out) ==
    /\ server = "serving"
    /\ result = NoResult
    /\ result' = [op |-> op, args |-> a, out |-> out]

\* the methods of SparkDatabase among them
DalMethods ==
    {"list_transcripts", "get_transcript", "search_transcripts", "get_statistics",
     "list_emails", "search_emails", "get_email", "find_action_items",
     "find_pending_responses", "list_events", "get_event_details",
     "find_events_needing_prep", "get_daily_briefing", "find_context_for_meeting",
     "list_attachments", "get_attachment", "search_attachments"}

\* the database an opaque method connects to first
OpaqueDb(method) ==
    IF method \in {"list_events", "get_daily_briefing", "find_context_for_meeting"}
    THEN "calendar" ELSE "messages"

\* the databases whose connection is open when the method returns or raises:
\* the one the raising statement was using
LeftOpen(method, out) ==
    IF ~out.raised THEN {}
    ELSE CASE method \in {"list_transcripts", "get_statistics", "get_transcript",
                          "list_emails", "search_transcripts", "search_emails"} ->
                 {"messages"}
           [] method \in DalMethods -> {OpaqueDb(method)}
           [] OTHER -> {}

\* an operation of the data access layer: the connections it has not closed
\* stay open
CallDb(method, a, out) ==
    /\ Call(method, a, out)
    /\ conns' = conns \cup LeftOpen(method, out)

\* the garbage collector finalises the connections no frame refers to
Finalize ==
    /\ conns # {}
    /\ conns' = {}
    /\ UNCHANGED <<messages, fts, events, attendees, attachments, cache, dbFiles,
                   server, nowMs, doc, templates, result>>

Respond ==
    /\ result # NoResult
    /\ result' = NoResult
    /\ UNCHANGED <<messages, fts, events, attendees, attachments, cache, conns,
                   dbFiles, server, nowMs, doc, templates>>

Limits == 0..MaxLimit
Offsets == 0..MaxOffset
DateArgs == {NoDate, 19}

TranscriptArgs ==
    [start_date : DateArgs \cup {BadDate}, end_date : DateArgs,
     include_ad_hoc : BOOLEAN, only_kept : BOOLEAN, limit : Limits, offset : Offsets]

EmailArgs ==
    [folder : {"inbox", "sent", "drafts", "all"}, unread_only : BOOLEAN,
     start_date : DateArgs, end_date : DateArgs, sender : {NoText, bob},
     limit : Limits, offset : Offsets]

\* the arguments of the partition questions: no filter but the partition's
TranscriptArgsPlain ==
    [start_date : {NoDate}, end_date : {NoDate}, include_ad_hoc : {TRUE},
     only_kept : BOOLEAN, limit : Limits, offset : Offsets]

EmailArgsPlain ==
    [folder : {"inbox", "all"}, unread_only : {FALSE}, start_date : {NoDate},
     end_date : {NoDate}, sender : {NoText}, limit : Limits, offset : Offsets]

SearchArgs ==
    [query : {"invoice", "notes"}, start_date : DateArgs, end_date : {NoDate},
     limit : Limits]

DaysArgs == [days : {1, 3}, limit : Limits]

GetTranscriptArgs ==
    [message_pk : {NoPk} \cup 0..9, transcript_id : {NoId}]
        \cup [message_pk : {NoPk, 0}, transcript_id : {t1, t3}]

ListTranscripts(Args) ==
    /\ \E a \in Args : CallDb("list_transcripts", a, list_transcripts(a, messages, fts))
    /\ UNCHANGED <<messages, fts, events, attendees, attachments, cache,
                   dbFiles, server, nowMs, doc, templates>>

ListEmails(Args) ==
    /\ \E a \in Args : CallDb("list_emails", a, list_emails(a, messages))
    /\ UNCHANGED <<messages, fts, events, attendees, attachments, cache,
                   dbFiles, server, nowMs, doc, templates>>

SearchEmails ==
    /\ \E a \in SearchArgs : CallDb("search_emails", a, search_emails(a, messages, fts))
    /\ UNCHANGED <<messages, fts, events, attendees, attachments, cache,
                   dbFiles, server, nowMs, doc, templates>>

SearchTranscripts ==
    /\ \E a \in SearchArgs :
          CallDb("search_transcripts", a, search_transcripts(a, messages, fts))
    /\ UNCHANGED <<messages, fts, events, attendees, attachments, cache,
                   dbFiles, server, nowMs, doc, templates>>

FindActionItems ==
    /\ \E a \in DaysArgs :
          CallDb("find_action_items", a, find_action_items(a, messages, fts, nowMs))
    /\ UNCHANGED <<messages, fts, events, attendees, attachments, cache,
                   dbFiles, server, nowMs, doc, templates>>

FindPendingResponses ==
    /\ \E a \in DaysArgs :
          CallDb("find_pending_responses", a, find_pending_responses(a, messages, nowMs))
    /\ UNCHANGED <<messages, fts, events, attendees, attachments, cache,
                   dbFiles, server, nowMs, doc, templates>>

GetTranscript ==
    /\ \E a \in GetTranscriptArgs :
          CallDb("get_transcript", a, get_transcript(a, messages, fts))
    /\ UNCHANGED <<messages, fts, events, attendees, attachments, cache,
                   dbFiles, server, nowMs, doc, templates>>

GetStatistics ==
    /\ CallDb("get_statistics", [none |-> TRUE], get_statistics(messages, fts))
    /\ UNCHANGED <<messages, fts, events, attendees, attachments, cache,
                   dbFiles, server, nowMs, doc, templates>>

----------------------------------------------------------------------------
(* Specifications of the mail operations *)

\* the three database files SparkDatabase.__init__ looks for
DbNames == {"messages", "search", "calendar"}

\* a server that has started, with no attachment and no connection
InitServing ==
    /\ attachments = <<>>
    /\ cache = {}
    /\ conns = {}
    /\ dbFiles = DbNames
    /\ server = "serving"

InitOther ==
    /\ events = <<>>
    /\ attendees = <<>>
    /\ InitServing
    /\ doc = <<>>
    /\ templates = EmptyTemplates
    /\ result = NoResult

\* the partition and the joins: every dataset of messages and of hits
InitMail ==
    /\ messages \in Datasets(MsgPool, MaxStore)
    /\ fts \in Datasets(FtsPool, MaxFts)
    /\ nowMs = NowMs
    /\ InitOther

NextMail ==
    \/ ListTranscripts(TranscriptArgsPlain)
    \/ ListEmails(EmailArgsPlain)
    \/ SearchEmails
    \/ SearchTranscripts
    \/ FindActionItems
    \/ GetTranscript
    \/ GetStatistics
    \/ Finalize
    \/ Respond

SpecMail == InitMail /\ [][NextMail]_vars

\* pagination: every filter combination, the full index
InitList ==
    /\ messages \in Datasets(MsgPool, MaxStore)
    /\ fts = FtsPool
    /\ nowMs = NowMs
    /\ InitOther

NextList ==
    \/ ListTranscripts(TranscriptArgs)
    \/ ListEmails(EmailArgs)
    \/ Finalize
    \/ Respond

SpecList == InitList /\ [][NextList]_vars

InitPending ==
    /\ messages \in Datasets(MsgPool, MaxStore + 1)
    /\ fts = FtsPool
    /\ nowMs = NowMs
    /\ InitOther

NextPending ==
    \/ FindPendingResponses
    \/ Respond

SpecPending == InitPending /\ [][NextPending]_vars

----------------------------------------------------------------------------
(* The kept/deleted scenario: stores of k kept and d deleted transcripts   *)
(* and e ordinary emails.                                                  *)

MaxKept == 5
MaxDeleted == 3
MaxPlain == 1

ScenarioStore(k, d, e) ==
    [i \in 1..(k + d + e) |->
        Msg(i,
            IF i <= k THEN MetaKept ELSE IF i <= k + d THEN MetaDeleted ELSE MetaPlain,
            18 * Day + 10 * (i % 3), 1, 0, 0, bob, NullInt)]

ScenarioStores ==
    {ScenarioStore(k, d, e) : k \in 0..MaxKept, d \in 0..MaxDeleted, e \in 0..MaxPlain}

\* call_tool, name = "list_meeting_transcripts": only the limit is passed on,
\* only_kept is always True
ToolListMeetingTranscripts ==
    /\ \E limit \in Limits :
          LET a == [start_date |-> NoDate, end_date |-> NoDate, include_ad_hoc |-> TRUE,
                    only_kept |-> TRUE, limit |-> limit, offset |-> 0]
          IN CallDb("list_transcripts", a, list_transcripts(a, messages, fts))
    /\ UNCHANGED <<messages, fts, events, attendees, attachments, cache,
                   dbFiles, server, nowMs, doc, templates>>

InitKept ==
    /\ messages \in ScenarioStores \cup Datasets(MsgPool, MaxStore)
    /\ fts = FtsPool
    /\ nowMs = NowMs
    /\ InitOther

NextKept ==
    \/ ListTranscripts(TranscriptArgsPlain)
    \/ ToolListMeetingTranscripts
    \/ Finalize
    \/ Respond

SpecKept == InitKept /\ [][NextKept]_vars

----------------------------------------------------------------------------
(* SparkDatabase.find_events_needing_prep.  A row of RDCALAPIEvent is      *)
(* [pk, dstart, dend, status, conferenceInfo]; status NullInt is NULL,     *)
(* conferenceInfo is a text, NullText when NULL.                           *)

NullText == <<"N", "U", "L", "L">>
link == <<"u", "r", "l">>

\* Python bool(row['conferenceInfo']): None and '' are false
HasConferenceInfo(e) == e.conferenceInfo # NullText /\ e.conferenceInfo # <<>>

\* SQL: dstart >= ? AND dstart < ? AND status != 3
UpcomingRow(e, nowTs, endTs) ==
    /\ e.dstart >= nowTs
    /\ e.dstart < endTs
    /\ e.status # NullInt /\ e.status # StatusCancelled

\* SELECT COUNT(*) FROM RDCALAPIAttendee WHERE refEventPK = ?
AttendeeCount(pk, att) == Cardinality({i \in 1..Len(att) : att[i] = pk})

\* needs_prep = attendee_count > 1 or bool(conferenceInfo) or duration > 1800
NeedsPrep(e, att) ==
    \/ AttendeeCount(e.pk, att) > 1
    \/ HasConferenceInfo(e)
    \/ (e.dend - e.dstart) > PrepDurationSecs

PrepItem(e, att) ==
    [eventPk |-> e.pk,
     attendeeCount |-> AttendeeCount(e.pk, att),
     hasConferenceLink |-> HasConferenceInfo(e),
     durationMinutes |-> (e.dend - e.dstart) \div 60]

find_events_needing_prep(a, evT, att, now) ==
    LET nowTs == now \div 1000
        endTs == nowTs + a.hours_ahead * 3600
        Up(e) == UpcomingRow(e, nowTs, endTs)
        up == SelectSeq(evT, Up)
        \* ORDER BY dstart LIMIT limit * 2
        rows == Take(SortByKeys(up, [i \in 1..Len(up) |-> up[i].dstart]), a.limit * 2)
        Needs(e) == NeedsPrep(e, att)
        prep == Take(SelectSeq(rows, Needs), a.limit)
    IN [raised |-> FALSE,
        total |-> Len(prep),
        items |-> [i \in 1..Len(prep) |-> PrepItem(prep[i], att)]]

Event(pk, start, duration, status, conf, n) ==
    [pk |-> pk, dstart |-> start, dend |-> start + duration, status |-> status,
     conferenceInfo |-> conf, nAttendees |-> n]

NowTs == NowMs \div 1000

\* n is the number of RDCALAPIAttendee rows that go with the event
EventPool ==
    << Event(1, NowTs + 3600, 600, 1, NullText, 2),
       Event(2, NowTs + 50, 600, 1, NullText, 1),
       Event(3, NowTs + 100, 1800, 1, <<>>, 0),
       Event(4, NowTs + 200, 1801, 1, NullText, 0),
       Event(5, NowTs + 300, 600, 0, link, 0),
       Event(6, NowTs + 400, 3600, StatusCancelled, link, 5),
       Event(7, NowTs, 3600, 2, NullText, 1),
       Event(8, NowTs + 500, 3600, NullInt, link, 2),
       Event(9, NowTs - 100, 3600, 1, link, 2) >>


RECURSIVE Repeat(_, _)
Repeat(x, n) == IF n = 0 THEN <<>> ELSE <<x>> \o Repeat(x, n - 1)

RECURSIVE AttendeesOf(_)
\* the RDCALAPIAttendee rows of a dataset of events
AttendeesOf(evT) ==
    IF evT = <<>> THEN <<>>
    ELSE Repeat(evT[1].pk, evT[1].nAttendees) \o AttendeesOf(Tail(evT))

PrepArgs == [hours_ahead : {1, 24}, limit : Limits]

FindEventsNeedingPrep ==
    /\ \E a \in PrepArgs :
          CallDb("find_events_needing_prep", a,
               find_events_needing_prep(a, events, attendees, nowMs))
    /\ UNCHANGED <<messages, fts, events, attendees, attachments, cache,
                   dbFiles, server, nowMs, doc, templates>>

InitCal ==
    /\ events \in Datasets(EventPool, MaxEvents)
    /\ attendees = AttendeesOf(events)
    /\ InitServing
    /\ messages = <<>>
    /\ fts = <<>>
    /\ nowMs = NowMs
    /\ doc = <<>>
    /\ templates = EmptyTemplates
    /\ result = NoResult

NextCal ==
    \/ FindEventsNeedingPrep
    \/ Respond

SpecCal == InitCal /\ [][NextCal]_vars

----------------------------------------------------------------------------
(* SparkDatabase.list_events *)

\* datetime.now().replace(hour=0, minute=0, second=0, microsecond=0), in a
\* time zone without offset
Midnight(now) == ((now \div 1000) \div Day) * Day

\* the window [start_ts, end_ts) of the call
WindowStart(a, now) ==
    IF a.start_date = NoDate THEN Midnight(now) ELSE IsoToTs(a.start_date)

WindowEnd(a, now) ==
    IF a.end_date = NoDate THEN WindowStart(a, now) + a.days_ahead * Day
    ELSE IsoToTs(a.end_date)

\* WHERE dstart >= ? AND dstart < ? ORDER BY dstart LIMIT ?
EventRows(evT, start_ts, end_ts, limit) ==
    LET In(row) == row.dstart >= start_ts /\ row.dstart < end_ts
        rows == SelectSeq(evT, In)
    IN Take(SortByKeys(rows, [i \in 1..Len(rows) |-> rows[i].dstart]), limit)

EventItem(row) ==
    [eventPk |-> row.pk, status |-> row.status,
     hasConferenceLink |-> row.conferenceInfo # NullText /\ row.conferenceInfo # <<>>]

list_events(a, evT, now) ==
    IF a.start_date = BadDate \/ a.end_date = BadDate THEN Raised
    ELSE LET rows == EventRows(evT, WindowStart(a, now), WindowEnd(a, now), a.limit)
         IN [raised |-> FALSE,
             total |-> Len(rows),
             items |-> [i \in 1..Len(rows) |-> EventItem(rows[i])]]

EventArgs ==
    [start_date : {NoDate, 20, BadDate}, end_date : {NoDate, 21},
     days_ahead : {0, 1}, limit : Limits]

ListEvents ==
    /\ \E a \in EventArgs : CallDb("list_events", a, list_events(a, events, nowMs))
    /\ UNCHANGED <<messages, fts, events, attendees, attachments, cache,
                   dbFiles, server, nowMs, doc, templates>>

NextEvents ==
    \/ ListEvents
    \/ Finalize
    \/ Respond

SpecEvents == InitCal /\ [][NextEvents]_vars

----------------------------------------------------------------------------
(* PDFOperations.add_signature and PDFOperations.fill_and_sign.  Lengths   *)
(* are points.  `doc` is the file system the PDF operations see:           *)
(*   pages      the pages of form.pdf, each [width, height, widgets]       *)
(*   image      the pixel size of sig.png                                  *)
(*   defaultSig whether the configuration names sig.png as the default     *)
(*   outputs    the output files that exist                                *)

NoCoord == -1000000           \* Python None for an optional number
NoPath == "None"              \* Python None for an optional path
NoField == "None"             \* Python None for an optional field name
FormPdf == "form.pdf"
MissingPdf == "missing.pdf"
SigPng == "sig.png"
MissingPng == "missing.png"

Rect(x0, y0, x1, y1) == [x0 |-> x0, y0 |-> y0, x1 |-> x1, y1 |-> y1]
Widget(name, rect) == [field_name |-> name, rect |-> rect]
Page(w, h, widgets) == [width |-> w, height |-> h, widgets |-> widgets]

PathExists(p) == p \in {FormPdf, SigPng}

\* config.get_signature_path: the configured path if that file exists
get_signature_path(d) == IF d.defaultSig THEN SigPng ELSE NoPath

\* the signature file the operation will read, NoPath when there is none
SigPath(a, d) ==
    IF a.signature_image_path # NoPath THEN a.signature_image_path
    ELSE get_signature_path(d)

\* the three FileNotFoundError exits before the document is opened
FilesMissing(a, d) ==
    \/ SigPath(a, d) = NoPath
    \/ ~PathExists(a.pdf_path)
    \/ ~PathExists(SigPath(a, d))

\* mutant: a negative page number counts from the end, as a list index does
PageIdx_FromEnd(page, n) == IF page < 0 THEN n + page ELSE page - 1

\* page number (1-indexed, -1 for last) to 0-indexed page index
PageIdx(page, n) == IF page = -1 THEN n - 1 ELSE page - 1

ValidIdx(idx, n) == 0 <= idx /\ idx < n

\* mutant: the image is taken as square
SigHeight_Square(width, img) == width

\* sig_height = width * (img.height / img.width)
SigHeight(width, img) == (width * img.height) \div img.width

add_signature(a, d) ==
    IF FilesMissing(a, d) THEN Raised
    ELSE LET n == Len(d.pages)
             page_idx == PageIdx(a.page, n)
         IN IF ~ValidIdx(page_idx, n) THEN Raised
            ELSE LET page_rect == d.pages[page_idx + 1]
                     sig_width == a.width
                     sig_height == SigHeight(a.width, d.image)
                     x == IF a.x = NoCoord
                          THEN page_rect.width - sig_width - SigMargin ELSE a.x
                     y == IF a.y = NoCoord
                          THEN page_rect.height - sig_height - SigMargin ELSE a.y
                 IN [raised |-> FALSE,
                     page |-> page_idx + 1,
                     rect |-> Rect(x, y, x + sig_width, y + sig_height),
                     position |-> [x |-> x, y |-> y, width |-> sig_width,
                                   height |-> sig_height]]

RECURSIVE WidgetsFrom(_, _)
\* the widgets of pages i.. in enumeration order, each with its page index
WidgetsFrom(pages, i) ==
    IF i > Len(pages) THEN <<>>
    ELSE [k \in 1..Len(pages[i].widgets) |->
            [page_idx |-> i - 1, widget |-> pages[i].widgets[k]]]
         \o WidgetsFrom(pages, i + 1)

\* for page_idx, doc_page in enumerate(doc): for widget in doc_page.widgets()
AllWidgets(pages) == WidgetsFrom(pages, 1)

\* widgets whose value the loop sets: once for `fields`, once for `checkboxes`
FieldsUpdated(ws, fields, checkboxes) ==
    Cardinality({i \in 1..Len(ws) : ws[i].widget.field_name \in fields})
    + Cardinality({i \in 1..Len(ws) : ws[i].widget.field_name \in checkboxes})

\* the widgets named signature_field; an empty name counts as none given
SigWidgets(ws, signature_field) ==
    IF signature_field = NoField \/ signature_field = ""
    THEN <<>>
    ELSE LET Named(w) == w.widget.field_name = signature_field
         IN SelectSeq(ws, Named)

\* mutant: y is looked at before y_from_top
CoordinateRect_YFirst(a, page_rect, sig_width, sig_height) ==
    LET x == IF a.x = NoCoord THEN page_rect.width - sig_width - SigMargin ELSE a.x
    IN IF a.y # NoCoord
       THEN Rect(x, a.y, x + sig_width, a.y + sig_height)
       ELSE IF a.y_from_top # NoCoord
       THEN Rect(x, a.y_from_top - sig_height, x + sig_width, a.y_from_top)
       ELSE LET y == page_rect.height - sig_height - SigMargin
            IN Rect(x, y, x + sig_width, y + sig_height)

\* the rectangle from coordinates: y_from_top, else y, else bottom-right
CoordinateRect(a, page_rect, sig_width, sig_height) ==
    LET x == IF a.x = NoCoord THEN page_rect.width - sig_width - SigMargin ELSE a.x
    IN IF a.y_from_top # NoCoord
       THEN Rect(x, a.y_from_top - sig_height, x + sig_width, a.y_from_top)
       ELSE IF a.y # NoCoord
       THEN Rect(x, a.y, x + sig_width, a.y + sig_height)
       ELSE LET y == page_rect.height - sig_height - SigMargin
            IN Rect(x, y, x + sig_width, y + sig_height)

\* text annotations: an annotation whose page does not resolve is skipped;
\* yFromTop is a fitz coordinate, y is measured from the bottom of the page
PlaceAnnotations(annos, pages) ==
    LET n == Len(pages)
        Valid(anno) == ValidIdx(PageIdx(anno.page, n), n)
        kept == SelectSeq(annos, Valid)
    IN [i \in 1..Len(kept) |->
          LET anno == kept[i]
              idx == PageIdx(anno.page, n)
          IN [page |-> idx + 1,
              x |-> anno.x,
              y |-> IF anno.yFromTop # NoCoord THEN anno.yFromTop
                    ELSE pages[idx + 1].height - anno.y,
              text |-> anno.text]]

fill_and_sign(a, d) ==
    IF FilesMissing(a, d) THEN Raised
    ELSE LET n == Len(d.pages)
             ws == AllWidgets(d.pages)
             sig == SigWidgets(ws, a.signature_field)
             found == sig # <<>>
             \* the loop overwrites sig_rect: the last widget of the name stays
             last == sig[Len(sig)]
             target_page_idx == IF found THEN last.page_idx ELSE PageIdx(a.page, n)
         IN IF ~ValidIdx(target_page_idx, n) THEN Raised
            ELSE LET page_rect == d.pages[target_page_idx + 1]
                     sig_width == a.width
                     sig_height == SigHeight(a.width, d.image)
                     final_rect == IF found THEN last.widget.rect
                                   ELSE CoordinateRect(a, page_rect, sig_width, sig_height)
                     texts == PlaceAnnotations(a.text_annotations, d.pages)
                 IN [raised |-> FALSE,
                     fieldsUpdated |-> FieldsUpdated(ws, a.fields, a.checkboxes),
                     page |-> target_page_idx + 1,
                     rect |-> final_rect,
                     texts |-> texts,
                     annotationsAdded |-> Len(texts)]

\* doc.save(out_path): the default output file of the operation exists
Saved(d, out, suffix) ==
    IF out.raised THEN d ELSE [d EXCEPT !.outputs = @ \cup {suffix}]

Letter == Page(612, 792, <<>>)
A4 == Page(595, 842, << Widget("sig", Rect(100, 700, 300, 750)),
                        Widget("name", Rect(100, 100, 300, 120)) >>)
Legal == Page(612, 1008, << Widget("sig", Rect(50, 900, 250, 960)) >>)

PagePool == << Letter, A4, Legal >>
ImagePool == { [width |-> 300, height |-> 100],
               [width |-> 100, height |-> 100],
               [width |-> 100, height |-> 200] }

Docs == Datasets(PagePool, MaxPages) \ {<<>>}

Anno(page, x, y, yFromTop, text) ==
    [page |-> page, x |-> x, y |-> y, yFromTop |-> yFromTop, text |-> text]

AnnoLists ==
    { <<>>,
      << Anno(1, 72, NoCoord, 100, "Jane"), Anno(-1, 72, 100, NoCoord, "Doe"),
         Anno(MaxPages + 1, 72, NoCoord, 100, "far"), Anno(0, 72, 100, NoCoord, "zero") >> }

SignArgs ==
    [pdf_path : {FormPdf}, signature_image_path : {SigPng},
     page : {-1, 0, 1, MaxPages + 1}, x : {NoCoord, 72}, y : {NoCoord, 0, 500},
     width : {60, 150}]
    \cup
    [pdf_path : {FormPdf, MissingPdf}, signature_image_path : {NoPath, SigPng, MissingPng},
     page : {-1}, x : {NoCoord}, y : {NoCoord}, width : {150}]

FillSignArgs ==
    [pdf_path : {FormPdf}, signature_image_path : {SigPng},
     fields : {{}}, checkboxes : {{}},
     page : {-1, 1, MaxPages + 1}, x : {NoCoord, 72}, y : {NoCoord, 500},
     y_from_top : {NoCoord, 0, 700}, width : {60, 150},
     signature_field : {NoField, "", "sig", "other"},
     text_annotations : {<<>>}]
    \cup
    [pdf_path : {FormPdf, MissingPdf}, signature_image_path : {NoPath, SigPng, MissingPng},
     fields : {{}, {"name"}}, checkboxes : {{}, {"name"}},
     page : {-1, 0}, x : {NoCoord}, y : {NoCoord},
     y_from_top : {NoCoord}, width : {150},
     signature_field : {NoField}, text_annotations : AnnoLists]

SignPdf ==
    /\ \E a \in SignArgs :
          LET out == add_signature(a, doc)
          IN /\ Call("sign_pdf", a, out)
             /\ doc' = Saved(doc, out, "_signed.pdf")
    /\ UNCHANGED <<messages, fts, events, attendees, attachments, cache, conns,
                   dbFiles, server, nowMs, templates>>

FillAndSignPdf ==
    /\ \E a \in FillSignArgs :
          LET out == fill_and_sign(a, doc)
          IN /\ Call("fill_and_sign_pdf", a, out)
             /\ doc' = Saved(doc, out, "_filled_signed.pdf")
    /\ UNCHANGED <<messages, fts, events, attendees, attachments, cache, conns,
                   dbFiles, server, nowMs, templates>>

InitSign ==
    /\ doc \in [pages : Docs, image : ImagePool, defaultSig : BOOLEAN, outputs : {{}}]
    /\ messages = <<>>
    /\ fts = <<>>
    /\ events = <<>>
    /\ attendees = <<>>
    /\ InitServing
    /\ nowMs = NowMs
    /\ templates = EmptyTemplates
    /\ result = NoResult

NextSign ==
    \/ SignPdf
    \/ FillAndSignPdf
    \/ Respond

SpecSign == InitSign /\ [][NextSign]_vars

----------------------------------------------------------------------------
(* Templates: config.save_template / load_template / list_templates /      *)
(* delete_template and the PDFOperations methods on top of them.           *)
(* `templates` is the templates directory: for every name the file         *)
(* <name>.json, absent, or present with JSON text or with text that does   *)
(* not parse.                                                              *)

CorruptFile == [exists |-> TRUE, wf |-> FALSE]
NoTemplate == [found |-> FALSE]
NoneValue == "None"            \* Python None for a missing value
NoType == "None"               \* a field without the key `type`

\* json.dump(template_data, f)
JsonDump(data) == [exists |-> TRUE, wf |-> TRUE, data |-> data]

\* mutant: a re-save appends its fields to the stored ones
save_template_Merge(store, template_name, template_data) ==
    LET f == store[template_name]
    IN IF f.exists /\ f.wf
       THEN [store EXCEPT ![template_name] =
               JsonDump([template_data EXCEPT !.fields = f.data.fields \o @])]
       ELSE [store EXCEPT ![template_name] = JsonDump(template_data)]

\* open(template_path, 'w') and json.dump: the file is replaced
save_template(store, template_name, template_data) ==
    [store EXCEPT ![template_name] = JsonDump(template_data)]

\* None when the file is missing or does not parse
load_template(store, template_name) ==
    LET f == store[template_name]
    IN IF ~f.exists THEN NoTemplate
       ELSE IF ~f.wf THEN NoTemplate
       ELSE [found |-> TRUE, data |-> f.data]

\* one entry per file that parses; the order of glob is not modelled
list_templates(store) ==
    {[name |-> n, fields |-> Len(store[n].data.fields),
      description |-> store[n].data.description] :
        n \in {m \in TemplateNames : store[m].exists /\ store[m].wf}}

\* mutant: the file is reported as deleted whether or not it was there
delete_template_AlwaysTrue(store, template_name) ==
    [store |-> [store EXCEPT ![template_name] = NoFile], deleted |-> TRUE]

\* unlink the file if it exists
delete_template(store, template_name) ==
    IF store[template_name].exists
    THEN [store |-> [store EXCEPT ![template_name] = NoFile], deleted |-> TRUE]
    ELSE [store |-> store, deleted |-> FALSE]

save_pdf_template(a) ==
    [raised |-> FALSE, success |-> TRUE, templateName |-> a.template_name,
     fieldCount |-> Len(a.fields)]

\* {"name": template_name, "description": description or "", "fields": fields}
TemplateData(a) ==
    [name |-> a.template_name,
     description |-> IF a.description = NoneValue THEN "" ELSE a.description,
     fields |-> a.fields]

list_pdf_templates(store) ==
    [raised |-> FALSE, success |-> TRUE, templates |-> list_templates(store),
     total |-> Cardinality(list_templates(store))]

delete_pdf_template(a, store) ==
    LET deleted == delete_template(store, a.template_name).deleted
    IN [raised |-> FALSE, success |-> deleted,
        templateName |-> a.template_name,
        message |-> IF deleted THEN "deleted" ELSE "not found"]

\* mutant: a name without an entry gets the empty text
ValuesGet_Blank(values, field_name) == DictGet(values, field_name, "")

\* values.get(field_name)
ValuesGet(values, field_name) == DictGet(values, field_name, NoneValue)

\* field.get("type", "text")
FieldType(field) == IF field.type = NoType THEN "text" ELSE field.type

\* field.get("width", 150)
FieldWidth(field) == IF field.width = NoCoord THEN DefaultSigWidth ELSE field.width

\* value.lower() == "auto"
IsAuto(value) == value \in {"auto", "Auto", "AUTO"}

\* datetime.now().strftime("%B %d, %Y"): the text names the current day
LongDate(now) == "day " \o ToString(now \div (Day * 1000))

FieldText(field, value, now) ==
    IF FieldType(field) = "date" /\ IsAuto(value) THEN LongDate(now) ELSE value

\* mutant: y is used as a distance from the top
YFromBottom_AsTop(page_height, y_from_bottom) == y_from_bottom

\* y = page_height - y_from_bottom
YFromBottom(page_height, y_from_bottom) == page_height - y_from_bottom

fill_from_template(a, store, d, now) ==
    IF ~PathExists(a.pdf_path) THEN Raised
    ELSE LET template == load_template(store, a.template_name)
         IN IF ~template.found THEN Raised
            ELSE LET n == Len(d.pages)
                     fields == template.data.fields
                     HasValue(f) == ValuesGet(a.values, f.fieldName) # NoneValue
                     Resolves(f) == ValidIdx(PageIdx(f.page, n), n)
                     sig_path == SigPath(a, d)
                     Signs(f) ==
                         /\ HasValue(f) /\ FieldType(f) = "signature"
                         /\ a.sign
                         /\ sig_path # NoPath /\ PathExists(sig_path)
                         /\ Resolves(f)
                     Writes(f) ==
                         HasValue(f) /\ FieldType(f) # "signature" /\ Resolves(f)
                     signed == SelectSeq(fields, Signs)
                     written == SelectSeq(fields, Writes)
                     PageOf(f) == d.pages[PageIdx(f.page, n) + 1]
                     images ==
                         [i \in 1..Len(signed) |->
                            LET f == signed[i]
                                y == YFromBottom(PageOf(f).height, f.y)
                                width == FieldWidth(f)
                                sig_height == SigHeight(width, d.image)
                            IN [page |-> PageIdx(f.page, n) + 1,
                                rect |-> Rect(f.x, y - sig_height, f.x + width, y)]]
                     texts ==
                         [i \in 1..Len(written) |->
                            LET f == written[i]
                            IN [page |-> PageIdx(f.page, n) + 1,
                                x |-> f.x,
                                y |-> YFromBottom(PageOf(f).height, f.y),
                                text |-> FieldText(f, ValuesGet(a.values, f.fieldName), now),
                                fieldName |-> f.fieldName]]
                 IN [raised |-> FALSE,
                     templateName |-> a.template_name,
                     fieldsFilled |-> Len(texts),
                     texts |-> texts,
                     images |-> images,
                     signatureAdded |-> a.sign /\ images # <<>>]

Field(fieldName, type, page, x, y, width) ==
    [fieldName |-> fieldName, type |-> type, page |-> page, x |-> x, y |-> y,
     width |-> width]

FieldPool ==
    << Field("name", "text", 1, 72, 700, NoCoord),
       Field("date", "date", -1, 300, 100, NoCoord),
       Field("sig", "signature", -1, 72, 150, 60),
       Field("far", "text", MaxPages + 1, 72, 50, NoCoord),
       Field("zero", NoType, 0, 72, 60, NoCoord) >>

FieldLists == Datasets(FieldPool, MaxFields)

ValueMaps ==
    { [k \in {"name", "date", "sig", "far", "zero"} |->
          IF k = "date" THEN "Auto" ELSE "Jane"],
      [k \in {"name", "date", "far", "zero"} |->
          IF k = "date" THEN "May 1" ELSE "Jane"],
      [k \in {"name", "sig"} |-> IF k = "sig" THEN "x" ELSE NoneValue] }

SaveArgs ==
    [template_name : {"nda"}, fields : FieldLists, description : {""}]
    \cup
    [template_name : {"w9"}, fields : {SubSeq(FieldPool, 1, 1)},
     description : {"tax", NoneValue}]

FillArgs ==
    [pdf_path : {FormPdf}, template_name : TemplateNames, values : ValueMaps,
     sign : BOOLEAN, signature_image_path : {NoPath}]
    \cup
    [pdf_path : {FormPdf, MissingPdf}, template_name : {"nda"},
     values : {[k \in {"sig"} |-> "x"]},
     sign : {TRUE}, signature_image_path : {SigPng, MissingPng}]

SavePdfTemplate ==
    /\ \E a \in SaveArgs :
          /\ Call("save_pdf_template", a, save_pdf_template(a))
          /\ templates' = save_template(templates, a.template_name, TemplateData(a))
    /\ UNCHANGED <<messages, fts, events, attendees, attachments, cache, conns,
                   dbFiles, server, nowMs, doc>>

ListPdfTemplates ==
    /\ Call("list_pdf_templates", <<>>, list_pdf_templates(templates))
    /\ UNCHANGED <<messages, fts, events, attendees, attachments, cache, conns,
                   dbFiles, server, nowMs, doc, templates>>

DeletePdfTemplate ==
    /\ \E a \in [template_name : TemplateNames] :
          /\ Call("delete_pdf_template", a, delete_pdf_template(a, templates))
          /\ templates' = delete_template(templates, a.template_name).store
    /\ UNCHANGED <<messages, fts, events, attendees, attachments, cache, conns,
                   dbFiles, server, nowMs, doc>>

FillFromTemplate ==
    /\ \E a \in FillArgs :
          LET out == fill_from_template(a, templates, doc, nowMs)
          IN /\ Call("fill_from_template", a, out)
             /\ doc' = Saved(doc, out, "_filled.pdf")
    /\ UNCHANGED <<messages, fts, events, attendees, attachments, cache, conns,
                   dbFiles, server, nowMs, templates>>

TplDocs == {SubSeq(PagePool, 1, k) : k \in 1..Min(MaxPages, Len(PagePool))}

InitTpl ==
    /\ templates \in {EmptyTemplates, [EmptyTemplates EXCEPT !["w9"] = CorruptFile]}
    /\ doc \in [pages : TplDocs, image : {[width |-> 300, height |-> 100]},
                defaultSig : BOOLEAN, outputs : {{}}]
    /\ messages = <<>>
    /\ fts = <<>>
    /\ events = <<>>
    /\ attendees = <<>>
    /\ InitServing
    /\ nowMs = NowMs
    /\ result = NoResult

NextTpl ==
    \/ SavePdfTemplate
    \/ ListPdfTemplates
    \/ DeletePdfTemplate
    \/ FillFromTemplate
    \/ Respond

SpecTpl == InitTpl /\ [][NextTpl]_vars

----------------------------------------------------------------------------
(* SparkDatabase.get_email: the row of `messages` with the pk, whatever   *)
(* its metadata, and the first row of messagesfts of that messagePk.      *)

get_email(message_pk, table, ftsT) ==
    LET hits == {i \in 1..Len(table) : table[i].pk = message_pk}
        texts == {i \in 1..Len(ftsT) : ftsT[i].messagePk = message_pk}
    IN IF hits = {} THEN NotFound
       ELSE LET row == table[CHOOSE i \in hits : \A j \in hits : i <= j]
            IN [raised |-> FALSE, found |-> TRUE,
                messagePk |-> row.pk,
                unread |-> row.unseen = 1,
                conversationPk |-> row.conversationPk,
                fullTextLength |->
                    IF texts = {} THEN 0
                    ELSE ftsT[CHOOSE i \in texts : \A j \in texts : i <= j].len]

----------------------------------------------------------------------------
(* SparkDatabase.get_event_details: the row of RDCALAPIEvent with the pk  *)
(* and its attendees.  The organizer table is not part of the model.      *)

get_event_details(event_pk, evT, att) ==
    LET hits == {i \in 1..Len(evT) : evT[i].pk = event_pk}
    IN IF hits = {} THEN NotFound
       ELSE LET row == evT[CHOOSE i \in hits : \A j \in hits : i <= j]
            IN [raised |-> FALSE, found |-> TRUE,
                eventPk |-> row.pk,
                status |-> row.status,
                conferenceInfo |->
                    IF row.conferenceInfo = NullText THEN <<>> ELSE row.conferenceInfo,
                attendees |-> AttendeeCount(event_pk, att)]

----------------------------------------------------------------------------
(* SparkDatabase.get_attachment.  A row of messageAttachment is [pk,      *)
(* messagePk, attachmentName, attachmentMIMEType]; a file of the cache is *)
(* [dir, messagePk, name], dir "1" for messagesData/1/<pk>/<name> and ""  *)
(* for messagesData/<pk>/<name>.                                          *)

NoName == ""    \* attachmentName IS NULL, or empty
NoMime == ""    \* attachmentMIMEType IS NULL, or empty

CachePath(dir, message_pk, filename) ==
    [dir |-> dir, messagePk |-> message_pk, name |-> filename]

\* SparkDatabase._get_attachment_path; NoPath stands for None
get_attachment_path_LegacyFirst(message_pk, filename, files) ==
    IF filename = "" THEN CachePath(NoPath, message_pk, filename)
    ELSE IF CachePath("", message_pk, filename) \in files
    THEN CachePath("", message_pk, filename)
    ELSE CachePath("1", message_pk, filename)
get_attachment_path(message_pk, filename, files) ==
    IF filename = "" THEN CachePath(NoPath, message_pk, filename)
    ELSE IF CachePath("1", message_pk, filename) \in files
    THEN CachePath("1", message_pk, filename)
    ELSE IF CachePath("", message_pk, filename) \in files
    THEN CachePath("", message_pk, filename)
    ELSE CachePath("1", message_pk, filename)

\* the rows of a message: WHERE messagePk = ? ORDER BY pk
AttachmentRows(message_pk, attT) ==
    LET Of(row) == row.messagePk = message_pk
        rows == SelectSeq(attT, Of)
    IN SortByKeys(rows, [i \in 1..Len(rows) |-> rows[i].pk])

\* extractors.extract_text on a file that exists and can be read
ExtractedType(mime_type) ==
    IF mime_type \in {"application/pdf", "text/plain"} THEN "extracted_text"
    ELSE "base64"

\* 'attachment_<index>'
DefaultName(index) == "attachment_" \o ToString(index)

get_attachment(a, attT, files) ==
    LET rows == AttachmentRows(a.message_pk, attT)
        \* LIMIT 1 OFFSET ?: a negative offset counts as 0
        offset == Max(a.attachment_index, 0)
    IN IF offset >= Len(rows) THEN NotFound
       ELSE LET row == rows[offset + 1]
                filename == IF row.attachmentName = NoName
                            THEN DefaultName(a.attachment_index)
                            ELSE row.attachmentName
                mime_type == IF row.attachmentMIMEType = NoMime
                             THEN "application/octet-stream"
                             ELSE row.attachmentMIMEType
                file_path == get_attachment_path(a.message_pk, filename, files)
            IN [raised |-> FALSE, found |-> TRUE,
                messagePk |-> a.message_pk,
                attachmentPk |-> row.pk,
                filename |-> filename,
                mimeType |-> mime_type,
                path |-> file_path,
                contentType |->
                    IF file_path \notin files THEN "not_downloaded"
                    ELSE IF a.extract_text THEN ExtractedType(mime_type)
                    ELSE "base64"]

----------------------------------------------------------------------------
(* SparkDatabase.search_attachments.  Patterns and the texts they are      *)
(* matched against are sequences of characters.                            *)

star_pdf == <<"*", ".", "p", "d", "f">>
application_any == <<"a", "p", "p", "l", "i", "c", "a", "t", "i", "o", "n", "/", "*">>
image_png == <<"i", "m", "a", "g", "e", "/", "p", "n", "g">>

\* the characters of the names and MIME types the attachment rows hold
CharsOf(text) ==
    CASE text = "a.pdf" -> <<"a", ".", "p", "d", "f">>
      [] text = "b.png" -> <<"b", ".", "p", "n", "g">>
      [] text = "application/pdf" ->
            <<"a", "p", "p", "l", "i", "c", "a", "t", "i", "o", "n", "/", "p", "d", "f">>
      [] text = "image/png" -> image_png
      [] OTHER -> <<>>

\* filename.replace('*', '%')
StarToPercent(pattern) ==
    [i \in 1..Len(pattern) |-> IF pattern[i] = "*" THEN "%" ELSE pattern[i]]

\* mime_type.endswith('/*')
EndsWithSlashStar(t) ==
    Len(t) >= 2 /\ t[Len(t) - 1] = "/" /\ t[Len(t)] = "*"

\* f"{mime_type[:-1]}%"
BaseTypePattern(t) == SubSeq(t, 1, Len(t) - 1) \o <<"%">>

RECURSIVE LikeMatch(_, _)
\* text LIKE pat, % matching any run of characters
LikeMatch(text, pat) ==
    IF pat = <<>> THEN text = <<>>
    ELSE IF Head(pat) = "%"
    THEN LikeMatch(text, Tail(pat)) \/ (text # <<>> /\ LikeMatch(Tail(text), pat))
    ELSE /\ text # <<>>
         /\ Fold(Head(text)) = Fold(Head(pat))
         /\ LikeMatch(Tail(text), Tail(pat))

\* the fragments search_attachments appends
SearchAttachmentsFilters(a) ==
    (IF a.filename # NoText THEN <<Frag("a.attachmentName LIKE ?", 1)>> ELSE <<>>)
    \o (IF a.mime_type = NoText THEN <<>>
        ELSE IF EndsWithSlashStar(a.mime_type)
        THEN <<Frag("a.attachmentMIMEType LIKE ?", 1)>>
        ELSE <<Frag("a.attachmentMIMEType = ?", 1)>>)

\* " AND ".join(where_clauses) if where_clauses else "1=1"
SearchAttachmentsWhere(a) ==
    IF SearchAttachmentsFilters(a) = <<>> THEN <<Frag("1=1", 0)>>
    ELSE SearchAttachmentsFilters(a)

SearchAttachmentsParams(a) ==
    (IF a.filename # NoText THEN <<StarToPercent(a.filename)>> ELSE <<>>)
    \o (IF a.mime_type = NoText THEN <<>>
        ELSE IF EndsWithSlashStar(a.mime_type) THEN <<BaseTypePattern(a.mime_type)>>
        ELSE <<a.mime_type>>)

\* one fragment on one row of messageAttachment; a NULL column matches nothing
EvalAttachmentFrag(sql, param, row) ==
    CASE sql = "1=1" -> TRUE
      [] sql = "a.attachmentName LIKE ?" ->
            row.attachmentName # NoName /\ LikeMatch(CharsOf(row.attachmentName), param)
      [] sql = "a.attachmentMIMEType LIKE ?" ->
            /\ row.attachmentMIMEType # NoMime
            /\ LikeMatch(CharsOf(row.attachmentMIMEType), param)
      [] sql = "a.attachmentMIMEType = ?" ->
            row.attachmentMIMEType # NoMime /\ CharsOf(row.attachmentMIMEType) = param

\* FROM messageAttachment a JOIN messages m ON a.messagePk = m.pk WHERE ...
\* ORDER BY m.receivedDate DESC LIMIT ?, then grouped by message in row order
search_attachments(a, table, attT) ==
    LET where == SearchAttachmentsWhere(a)
        params == SearchAttachmentsParams(a)
        DateOf(pk) == (CHOOSE i \in 1..Len(table) : table[i].pk = pk)
        Ok(row) ==
            /\ \E i \in 1..Len(table) : table[i].pk = row.messagePk
            /\ \A k \in 1..Len(where) :
                  EvalAttachmentFrag(where[k].sql,
                      IF where[k].np = 0 THEN <<>>
                      ELSE params[ParamsBefore(where, k) + 1], row)
        joined == SelectSeq(attT, Ok)
        rows == Take(SortByKeys(joined,
                    [i \in 1..Len(joined) |-> 0 - table[DateOf(joined[i].messagePk)].receivedDate]),
                    a.limit)
        First(i) == \A j \in 1..(i - 1) : rows[j].messagePk # rows[i].messagePk
        heads == SelectSeq([i \in 1..Len(rows) |-> i], First)
    IN [raised |-> FALSE,
        total |-> Len(heads),
        items |-> [g \in 1..Len(heads) |->
                     [messagePk |-> rows[heads[g]].messagePk,
                      attachments |->
                          LET Same(row) == row.messagePk = rows[heads[g]].messagePk
                              mine == SelectSeq(rows, Same)
                          IN [i \in 1..Len(mine) |-> mine[i].pk]]]]

----------------------------------------------------------------------------
(* The statements an operation executes with an assembled WHERE clause: a  *)
(* statement is its kind, the fragments joined by AND, the number of       *)
(* placeholders after the clause (LIMIT ? OFFSET ?) and the parameters     *)
(* bound to it.                                                            *)

Statement(kind, where, tail, params) ==
    [kind |-> kind, where |-> where, tail |-> tail, params |-> params]

\* the count query and the page query of a list operation; the page query is
\* not reached when the count query raises
ListStatements(where, params, a, countRaises) ==
    <<Statement("count", where, 0, params)>>
    \o (IF countRaises THEN <<>>
        ELSE <<Statement("page", where, 2, params \o <<a.limit, a.offset>>)>>)

\* the metadata query of a search, when the full-text query has hits
SearchStatements(a, ftsT, emails) ==
    LET ftsRows == FtsQuery(ftsT, a.query, a.limit * 2)
    IN IF ftsRows = <<>> \/ a.start_date = BadDate \/ a.end_date = BadDate THEN <<>>
       ELSE <<Statement("join",
                  IF emails THEN SearchEmailsWhere(a, Len(ftsRows))
                  ELSE SearchTranscriptsWhere(a, Len(ftsRows)),
                  0, PkList(ftsRows) \o DateParams(a))>>

Statements(op, a, table, ftsT) ==
    CASE op = "list_transcripts" ->
            IF a.start_date = BadDate \/ a.end_date = BadDate THEN <<>>
            ELSE ListStatements(ListTranscriptsWhere(a), DateParams(a), a,
                     WhereRaises(ListTranscriptsWhere(a), DateParams(a), table))
      [] op = "list_emails" ->
            IF a.start_date = BadDate \/ a.end_date = BadDate THEN <<>>
            ELSE ListStatements(ListEmailsWhere(a), ListEmailsParams(a), a, FALSE)
      [] op = "search_emails" -> SearchStatements(a, ftsT, TRUE)
      [] op = "search_transcripts" -> SearchStatements(a, ftsT, FALSE)
      [] op = "search_attachments" ->
            <<Statement("page", SearchAttachmentsWhere(a), 1,
                        SearchAttachmentsParams(a) \o <<a.limit>>)>>

----------------------------------------------------------------------------
(* server.call_tool: the dispatch shim.  `arguments` is a bag: a function   *)
(* from the names that are present to JSON values, each tagged with its    *)
(* type.                                                                   *)

VNull == [t |-> "null"]
VInt(n) == [t |-> "int", n |-> n]
VStr(s) == [t |-> "str", s |-> s]
VBool(b) == [t |-> "bool", b |-> b]
VList(l) == [t |-> "list", l |-> l]
VMap(m) == [t |-> "map", m |-> m]

\* arguments.get(key)
ArgGet(bag, key) == IF key \in DOMAIN bag THEN bag[key] ELSE VNull

\* arguments.get(key, default)
ArgGetDefault(bag, key, default) == IF key \in DOMAIN bag THEN bag[key] ELSE default

\* mutant: only None is taken as missing
Falsy_NoneOnly(v) == v.t = "null"

\* Python `not v`
Falsy(v) ==
    CASE v.t = "null" -> TRUE
      [] v.t = "int" -> v.n = 0
      [] v.t = "str" -> v.s = ""
      [] v.t = "bool" -> ~v.b
      [] v.t = "list" -> v.l = <<>>
      [] v.t = "map" -> DOMAIN v.m = {}

\* the strings int() accepts, with their value
Numerals == [s \in {"0", "1", "7"} |-> CASE s = "0" -> 0 [] s = "1" -> 1 [] s = "7" -> 7]

\* int(v), and float(v), raises TypeError or ValueError
IntRaises(v) ==
    CASE v.t = "int" -> FALSE
      [] v.t = "bool" -> FALSE
      [] v.t = "str" -> v.s \notin DOMAIN Numerals
      [] OTHER -> TRUE

\* int(v) where it does not raise
IntOf(v) ==
    CASE v.t = "int" -> v.n
      [] v.t = "bool" -> IF v.b THEN 1 ELSE 0
      [] v.t = "str" -> Numerals[v.s]

\* TOOLS: the names of the tools and the `required` list of each inputSchema
ToolNames ==
    {"list_meeting_transcripts", "get_meeting_transcript", "search_meeting_transcripts",
     "get_transcript_statistics", "list_emails", "search_emails", "get_email",
     "find_action_items", "find_pending_responses", "list_events", "get_event_details",
     "find_events_needing_prep", "get_daily_briefing", "find_context_for_meeting",
     "list_attachments", "get_attachment", "search_attachments", "get_pdf_form_fields",
     "fill_pdf_form", "sign_pdf", "fill_and_sign_pdf", "annotate_pdf", "get_pdf_layout",
     "save_pdf_template", "list_pdf_templates", "delete_pdf_template",
     "fill_from_template"}

SchemaRequired(name) ==
    CASE name \in {"get_meeting_transcript", "get_email", "list_attachments",
                   "get_attachment"} -> {"messagePk"}
      [] name \in {"search_meeting_transcripts", "search_emails"} -> {"query"}
      [] name \in {"get_event_details", "find_context_for_meeting"} -> {"eventPk"}
      [] name \in {"get_pdf_form_fields", "fill_pdf_form", "sign_pdf",
                   "fill_and_sign_pdf", "get_pdf_layout"} -> {"filePath"}
      [] name = "annotate_pdf" -> {"filePath", "annotations"}
      [] name = "save_pdf_template" -> {"templateName", "fields"}
      [] name = "delete_pdf_template" -> {"templateName"}
      [] name = "fill_from_template" -> {"filePath", "templateName", "values"}
      [] OTHER -> {}

\* the `if not <arg>: return "Error: <arg> required"` tests of a branch of
\* call_tool, in the order the branch makes them
HandlerChecks(name) ==
    CASE name \in {"get_meeting_transcript", "get_email", "list_attachments",
                   "get_attachment"} -> <<"messagePk">>
      [] name \in {"search_meeting_transcripts", "search_emails"} -> <<"query">>
      [] name \in {"get_event_details", "find_context_for_meeting"} -> <<"eventPk">>
      [] name \in {"get_pdf_form_fields", "fill_pdf_form", "sign_pdf",
                   "fill_and_sign_pdf", "get_pdf_layout"} -> <<"filePath">>
      [] name = "annotate_pdf" -> <<"filePath", "annotations">>
      [] name = "save_pdf_template" -> <<"templateName", "fields">>
      [] name = "delete_pdf_template" -> <<"templateName">>
      [] name = "fill_from_template" -> <<"filePath", "templateName", "values">>
      [] OTHER -> <<>>

\* the arguments a branch passes through int() or float(), each with its
\* default
IntArgs(name) ==
    CASE name \in {"get_meeting_transcript", "get_email", "list_attachments"} ->
            <<[key |-> "messagePk", default |-> VNull]>>
      [] name = "get_attachment" ->
            <<[key |-> "messagePk", default |-> VNull],
              [key |-> "attachmentIndex", default |-> VInt(0)]>>
      [] name = "get_event_details" -> <<[key |-> "eventPk", default |-> VNull]>>
      [] name = "find_context_for_meeting" ->
            <<[key |-> "eventPk", default |-> VNull],
              [key |-> "daysBack", default |-> VInt(30)]>>
      [] name \in {"list_meeting_transcripts", "list_emails", "search_attachments"} ->
            <<[key |-> "limit", default |-> VInt(20)]>>
      [] name \in {"search_meeting_transcripts", "search_emails"} ->
            <<[key |-> "limit", default |-> VInt(10)]>>
      [] name \in {"find_action_items", "find_pending_responses"} ->
            <<[key |-> "days", default |-> VInt(7)],
              [key |-> "limit", default |-> VInt(20)]>>
      [] name = "list_events" ->
            <<[key |-> "daysAhead", default |-> VInt(1)],
              [key |-> "limit", default |-> VInt(20)]>>
      [] name = "find_events_needing_prep" ->
            <<[key |-> "hoursAhead", default |-> VInt(24)],
              [key |-> "limit", default |-> VInt(20)]>>
      [] name \in {"sign_pdf", "fill_and_sign_pdf"} ->
            <<[key |-> "page", default |-> VInt(-1)],
              [key |-> "width", default |-> VInt(DefaultSigWidth)]>>
      [] OTHER -> <<>>

\* the first of the tested arguments that is missing, "" when none is
FirstMissing(name, bag) ==
    LET checks == HandlerChecks(name)
        miss == {i \in 1..Len(checks) : Falsy(ArgGet(bag, checks[i]))}
    IN IF miss = {} THEN ""
       ELSE checks[CHOOSE i \in miss : \A j \in miss : i <= j]

\* some int(...) or float(...) of the branch raises
ConversionRaises(name, bag) ==
    \E i \in 1..Len(IntArgs(name)) :
        IntRaises(ArgGetDefault(bag, IntArgs(name)[i].key, IntArgs(name)[i].default))

\* int(arguments.get(key, default))
IntArg(bag, key, default) == IntOf(ArgGetDefault(bag, key, VInt(default)))

\* [TextContent(type="text", text=...)]
TextContent(text) == <<[type |-> "text", text |-> text]>>

\* mutant: the text does not say which argument
ErrorRequired_Unnamed(arg) == TextContent("Error: argument required")

\* [TextContent(type="text", text="Error: <arg> required")]
ErrorRequired(arg) == TextContent("Error: " \o arg \o " required")

\* [TextContent(type="text", text=json.dumps(result, indent=2))]
JsonContent(out) == <<[type |-> "text", text |-> "json", value |-> out]>>

ErrorText(message) == TextContent("Error: " \o message)
UnknownTool(name) == TextContent("Unknown tool: " \o name)
NotFoundText(what) == TextContent(what \o " not found")

\* a text argument the data access layer compares with a column
VText(chars) == [t |-> "text", chars |-> chars]

\* arguments.get(key) of an optional number, None as NoCoord
OptNum(bag, key) == IF ArgGet(bag, key).t = "int" THEN bag[key].n ELSE NoCoord

\* arguments.get(key) of an optional string, None as `none`
OptStr(bag, key, none) == IF ArgGet(bag, key).t = "str" THEN bag[key].s ELSE none

\* the names of a fields or checkboxes object, None as no name
OptNames(bag, key) == IF ArgGet(bag, key).t = "map" THEN DOMAIN bag[key].m ELSE {}

\* the method of the data access layer or of the PDF operations a branch calls
Method(name) ==
    CASE name = "list_meeting_transcripts" -> "list_transcripts"
      [] name = "get_meeting_transcript" -> "get_transcript"
      [] name = "search_meeting_transcripts" -> "search_transcripts"
      [] name = "get_transcript_statistics" -> "get_statistics"
      [] name = "get_pdf_form_fields" -> "get_form_fields"
      [] name = "fill_pdf_form" -> "fill_form"
      [] name = "sign_pdf" -> "add_signature"
      [] name = "fill_and_sign_pdf" -> "fill_and_sign"
      [] OTHER -> name

\* the methods whose statements are not part of the model: they return a
\* value or one of their statements fails, as the environment has it
OpaqueMethods ==
    {"list_events", "get_daily_briefing", "find_context_for_meeting",
     "list_attachments", "search_attachments", "get_form_fields", "fill_form",
     "annotate_pdf", "get_pdf_layout"}

Outcomes == {"value", "raise"}

\* the keyword arguments a branch passes to its method
MethodArgs(name, bag) ==
    CASE name = "list_meeting_transcripts" ->
            [start_date |-> NoDate, end_date |-> NoDate, include_ad_hoc |-> TRUE,
             only_kept |-> TRUE, limit |-> IntArg(bag, "limit", 20), offset |-> 0]
      [] name = "get_meeting_transcript" ->
            [message_pk |-> IntArg(bag, "messagePk", 0), transcript_id |-> NoId]
      [] name \in {"search_meeting_transcripts", "search_emails"} ->
            [query |-> bag["query"].s, start_date |-> NoDate, end_date |-> NoDate,
             limit |-> IntArg(bag, "limit", 10)]
      [] name = "list_emails" ->
            [folder |-> OptStr(bag, "folder", "inbox"), unread_only |-> FALSE,
             start_date |-> NoDate, end_date |-> NoDate,
             sender |-> IF ArgGet(bag, "sender").t = "text"
                        THEN bag["sender"].chars ELSE NoText,
             limit |-> IntArg(bag, "limit", 20), offset |-> 0]
      [] name \in {"get_email", "list_attachments"} ->
            [message_pk |-> IntArg(bag, "messagePk", 0)]
      [] name \in {"find_action_items", "find_pending_responses"} ->
            [days |-> IntArg(bag, "days", 7), limit |-> IntArg(bag, "limit", 20)]
      [] name = "list_events" ->
            [days_ahead |-> IntArg(bag, "daysAhead", 1),
             limit |-> IntArg(bag, "limit", 20)]
      [] name = "get_event_details" -> [event_pk |-> IntArg(bag, "eventPk", 0)]
      [] name = "find_events_needing_prep" ->
            [hours_ahead |-> IntArg(bag, "hoursAhead", 24),
             limit |-> IntArg(bag, "limit", 20)]
      [] name = "find_context_for_meeting" ->
            [event_pk |-> IntArg(bag, "eventPk", 0),
             days_back |-> IntArg(bag, "daysBack", 30)]
      [] name = "get_attachment" ->
            [message_pk |-> IntArg(bag, "messagePk", 0),
             attachment_index |-> IntArg(bag, "attachmentIndex", 0),
             extract_text |-> ~Falsy(ArgGetDefault(bag, "extractText", VBool(TRUE)))]
      [] name = "search_attachments" -> [limit |-> IntArg(bag, "limit", 20)]
      [] name \in {"get_pdf_form_fields", "get_pdf_layout"} ->
            [pdf_path |-> bag["filePath"].s]
      [] name = "fill_pdf_form" ->
            [pdf_path |-> bag["filePath"].s, fields |-> OptNames(bag, "fields"),
             checkboxes |-> OptNames(bag, "checkboxes")]
      [] name = "sign_pdf" ->
            [pdf_path |-> bag["filePath"].s,
             signature_image_path |-> OptStr(bag, "signatureImagePath", NoPath),
             page |-> IntArg(bag, "page", -1),
             x |-> OptNum(bag, "x"), y |-> OptNum(bag, "y"),
             width |-> IntArg(bag, "width", DefaultSigWidth)]
      [] name = "fill_and_sign_pdf" ->
            [pdf_path |-> bag["filePath"].s,
             signature_image_path |-> OptStr(bag, "signatureImagePath", NoPath),
             fields |-> OptNames(bag, "fields"),
             checkboxes |-> OptNames(bag, "checkboxes"),
             page |-> IntArg(bag, "page", -1),
             x |-> OptNum(bag, "x"), y |-> OptNum(bag, "y"),
             y_from_top |-> OptNum(bag, "yFromTop"),
             width |-> IntArg(bag, "width", DefaultSigWidth),
             signature_field |-> OptStr(bag, "signatureField", NoField),
             text_annotations |-> IF ArgGet(bag, "textAnnotations").t = "list"
                                  THEN bag["textAnnotations"].l ELSE <<>>]
      [] name = "annotate_pdf" ->
            [pdf_path |-> bag["filePath"].s, annotations |-> bag["annotations"].l]
      [] name = "save_pdf_template" ->
            [template_name |-> bag["templateName"].s, fields |-> bag["fields"].l,
             description |-> OptStr(bag, "description", NoneValue)]
      [] name = "delete_pdf_template" -> [template_name |-> bag["templateName"].s]
      [] name = "fill_from_template" ->
            [pdf_path |-> bag["filePath"].s,
             template_name |-> bag["templateName"].s,
             values |-> bag["values"].m,
             sign |-> ~Falsy(ArgGetDefault(bag, "sign", VBool(FALSE))),
             signature_image_path |-> OptStr(bag, "signatureImagePath", NoPath)]
      [] OTHER -> [none |-> TRUE]

\* what an opaque method returns
OpaqueOut(env) == [raised |-> env = "raise", opaque |-> TRUE]

\* the call of the method: its return value, `raised` when it ends in an
\* exception.  S is the state the call reads.
Invoke(name, a, S, env) ==
    CASE name = "list_meeting_transcripts" -> list_transcripts(a, S.messages, S.fts)
      [] name = "get_meeting_transcript" -> get_transcript(a, S.messages, S.fts)
      [] name = "search_meeting_transcripts" ->
            search_transcripts(a, S.messages, S.fts)
      [] name = "get_transcript_statistics" -> get_statistics(S.messages, S.fts)
      [] name = "list_emails" -> list_emails(a, S.messages)
      [] name = "search_emails" -> search_emails(a, S.messages, S.fts)
      [] name = "get_email" -> get_email(a.message_pk, S.messages, S.fts)
      [] name = "find_action_items" ->
            find_action_items(a, S.messages, S.fts, S.nowMs)
      [] name = "find_pending_responses" ->
            find_pending_responses(a, S.messages, S.nowMs)
      [] name = "get_event_details" ->
            get_event_details(a.event_pk, S.events, S.attendees)
      [] name = "find_events_needing_prep" ->
            find_events_needing_prep(a, S.events, S.attendees, S.nowMs)
      [] name = "get_attachment" -> get_attachment(a, S.attachments, S.cache)
      [] name = "sign_pdf" -> add_signature(a, S.doc)
      [] name = "fill_and_sign_pdf" -> fill_and_sign(a, S.doc)
      [] name = "save_pdf_template" -> save_pdf_template(a)
      [] name = "list_pdf_templates" -> list_pdf_templates(S.templates)
      [] name = "delete_pdf_template" -> delete_pdf_template(a, S.templates)
      [] name = "fill_from_template" ->
            fill_from_template(a, S.templates, S.doc, S.nowMs)
      [] OTHER -> OpaqueOut(env)

\* the text a branch answers with when its method returns None
NotFoundWhat(name) ==
    CASE name = "get_meeting_transcript" -> "Transcript"
      [] name = "get_email" -> "Email"
      [] name = "get_event_details" -> "Event"
      [] name = "get_attachment" -> "Attachment"
      [] OTHER -> ""

\* the method returned None
IsNone(out) == "found" \in DOMAIN out /\ ~out.found

\* the file a PDF method saves when it returns, "" when it saves none
OutputSuffix(name) ==
    CASE name = "fill_pdf_form" -> "_filled.pdf"
      [] name = "sign_pdf" -> "_signed.pdf"
      [] name = "fill_and_sign_pdf" -> "_filled_signed.pdf"
      [] name = "annotate_pdf" -> "_annotated.pdf"
      [] name = "fill_from_template" -> "_filled.pdf"
      [] OTHER -> ""

\* the templates directory after the method
TemplatesAfter(name, a, out, store) ==
    CASE name = "save_pdf_template" /\ ~out.raised ->
            save_template(store, a.template_name, TemplateData(a))
      [] name = "delete_pdf_template" /\ ~out.raised ->
            delete_template(store, a.template_name).store
      [] OTHER -> store

\* str(e) of the exception a conversion raises, and of one a method raises
ConversionMessage == "invalid literal"
MethodMessage(name) == Method(name) \o " failed"

----------------------------------------------------------------------------
(* The connections of a method of the data access layer: the databases it *)
(* connects to, in order, and the ones whose connection it has not closed *)
(* when it returns or raises.  No method closes a connection in a finally *)
(* clause: a statement that raises between _connect_* and close() leaves  *)
(* the connection to the garbage collector.                               *)

\* the databases the method connects to, in the order of its _connect_* calls
Opened(method, a, S, out) ==
    CASE method = "list_transcripts" ->
            \* _get_text_lengths connects unless the page is empty
            <<"messages">>
            \o (IF ~out.raised /\ out.items # <<>> THEN <<"search">> ELSE <<>>)
      [] method = "get_statistics" ->
            <<"messages">>
            \o (IF ~out.raised /\ StatisticsRows(S.messages) # <<>>
                THEN <<"search">> ELSE <<>>)
      [] method = "get_transcript" ->
            <<"messages">> \o (IF ~out.raised /\ out.found THEN <<"search">> ELSE <<>>)
      [] method = "get_email" ->
            <<"messages">> \o (IF out.found THEN <<"search">> ELSE <<>>)
      [] method \in {"search_transcripts", "search_emails"} ->
            <<"search">>
            \o (IF FtsQuery(S.fts, a.query, a.limit * 2) # <<>>
                THEN <<"messages">> ELSE <<>>)
      [] method = "find_action_items" ->
            <<"search">>
            \o (IF FtsQuery(S.fts, ActionQuery, a.limit * 2) # <<>>
                THEN <<"messages">> ELSE <<>>)
      [] method \in {"list_emails", "find_pending_responses", "get_attachment"} ->
            <<"messages">>
      [] method \in {"get_event_details", "find_events_needing_prep"} ->
            <<"calendar">>
      [] method \in DalMethods -> <<OpaqueDb(method)>>
      [] OTHER -> <<>>

----------------------------------------------------------------------------
(* call_tool *)

NoOut == [raised |-> FALSE, none |-> TRUE]

\* a branch that answers without calling its method
Answer(response) ==
    [raised |-> FALSE, message |-> "", response |-> response,
     invoked |-> "none", a |-> <<>>, out |-> NoOut]

\* an exception on its way out of the try block
Exception(message, invoked, a) ==
    [raised |-> TRUE, message |-> message, response |-> <<>>,
     invoked |-> invoked, a |-> a, out |-> Raised]

\* the end of a branch: the method has returned `out` or raised
Served(name, a, out) ==
    IF out.raised THEN Exception(MethodMessage(name), Method(name), a)
    ELSE [raised |-> FALSE, message |-> "",
          response |-> IF IsNone(out) /\ NotFoundWhat(name) # ""
                       THEN NotFoundText(NotFoundWhat(name))
                       ELSE JsonContent(out),
          invoked |-> Method(name), a |-> a, out |-> out]

\* the call of the method with the keyword arguments a
Dispatch(name, a, S, env) == Served(name, a, Invoke(name, a, S, env))

\* the answer of a branch to a missing argument, <<>> when none is missing
MissingAnswer(name, bag, missing) ==
    IF missing # "" THEN ErrorRequired(missing)
    ELSE IF /\ name = "fill_pdf_form"
            /\ Falsy(ArgGet(bag, "fields"))
            /\ Falsy(ArgGet(bag, "checkboxes"))
    THEN TextContent("Error: fields or checkboxes required")
    ELSE <<>>

\* a branch after its tests
Checked(name, bag, S, env, answer) ==
    IF answer # <<>> THEN Answer(answer)
    ELSE IF ConversionRaises(name, bag) THEN Exception(ConversionMessage, "none", <<>>)
    ELSE Dispatch(name, MethodArgs(name, bag), S, env)

\* the try block of call_tool: the branch of the tool
Branch(name, bag, S, env) ==
    IF name \notin ToolNames THEN Answer(UnknownTool(name))
    ELSE Checked(name, bag, S, env, MissingAnswer(name, bag, FirstMissing(name, bag)))

\* mutant: no except clause, the exception leaves call_tool
Catch_Propagate(r) == r

\* except Exception as e: return [TextContent(type="text", text=f"Error: {str(e)}")]
Catch(r) ==
    IF r.raised THEN [r EXCEPT !.raised = FALSE, !.response = ErrorText(r.message)]
    ELSE r

call_tool(name, bag, S, env) == Catch(Branch(name, bag, S, env))

----------------------------------------------------------------------------
(* Tool calls as actions *)

\* the state a tool call reads
State ==
    [messages |-> messages, fts |-> fts, events |-> events, attendees |-> attendees,
     attachments |-> attachments, cache |-> cache, nowMs |-> nowMs, doc |-> doc,
     templates |-> templates]

\* a key the bag does not hold
Absent == [t |-> "absent"]

RECURSIVE BagsOver(_, _)
\* the bags over the keys `keys` of `choices`
BagsOver(choices, keys) ==
    IF keys = {} THEN {[k \in {} |-> Absent]}
    ELSE LET key == CHOOSE k \in keys : TRUE
             rest == BagsOver(choices, keys \ {key})
         IN UNION {{IF v = Absent THEN bag
                    ELSE [k \in DOMAIN bag \cup {key} |->
                             IF k = key THEN v ELSE bag[k]] : bag \in rest} :
                   v \in choices[key]}

\* the bags that give each key one of its choices, or leave it out
BagsOf(choices) == BagsOver(choices, DOMAIN choices)

PkChoices ==
    {Absent, VNull, VInt(0), VInt(1), VInt(42), VStr("7"), VStr("x")}

PathChoices == {Absent, VStr(""), VStr(FormPdf), VStr(MissingPdf)}

NoValues == [k \in {} |-> ""]

ToolBags(name) ==
    CASE name \in {"get_meeting_transcript", "get_email", "list_attachments"} ->
            BagsOf([messagePk |-> PkChoices])
      [] name = "get_attachment" ->
            BagsOf([messagePk |-> {Absent, VInt(0), VInt(1), VInt(3)},
                    attachmentIndex |-> {Absent, VInt(1), VInt(7), VStr("x")}])
      [] name \in {"search_meeting_transcripts", "search_emails"} ->
            BagsOf([query |-> {Absent, VStr(""), VStr("invoice"), VStr("zzz")},
                    limit |-> {Absent, VInt(1), VStr("x")}])
      [] name = "list_meeting_transcripts" ->
            BagsOf([limit |-> {Absent, VInt(1), VStr("7"), VStr("x")}])
      [] name = "list_emails" ->
            BagsOf([folder |-> {Absent, VStr("sent")}, sender |-> {Absent, VText(bob)}])
      [] name \in {"find_action_items", "find_pending_responses"} ->
            BagsOf([days |-> {Absent, VInt(1)}, limit |-> {Absent, VInt(1), VList(<<>>)}])
      [] name = "list_events" ->
            BagsOf([daysAhead |-> {Absent, VInt(7)}, limit |-> {Absent, VStr("x")}])
      [] name \in {"get_event_details", "find_context_for_meeting"} ->
            BagsOf([eventPk |-> {Absent, VNull, VInt(0), VInt(1), VInt(42), VStr("x")}])
      [] name = "find_events_needing_prep" ->
            BagsOf([hoursAhead |-> {Absent, VInt(1)}, limit |-> {Absent, VInt(1)}])
      [] name = "search_attachments" -> BagsOf([limit |-> {Absent, VInt(1)}])
      [] name \in {"get_pdf_form_fields", "get_pdf_layout"} ->
            BagsOf([filePath |-> PathChoices])
      [] name = "fill_pdf_form" ->
            BagsOf([filePath |-> {Absent, VStr(FormPdf)},
                    fields |-> {Absent, VMap(NoValues), VMap([name |-> "Jane"])}])
      [] name = "sign_pdf" ->
            BagsOf([filePath |-> PathChoices,
                    page |-> {Absent, VInt(0), VStr("x")}])
      [] name = "fill_and_sign_pdf" ->
            BagsOf([filePath |-> {Absent, VStr(FormPdf)},
                    signatureImagePath |-> {VStr(SigPng)},
                    signatureField |-> {Absent, VStr("sig")},
                    width |-> {Absent, VStr("x")}])
      [] name = "annotate_pdf" ->
            BagsOf([filePath |-> {Absent, VStr(FormPdf)},
                    annotations |-> {Absent, VList(<<>>),
                                     VList(<<Anno(1, 72, 700, NoCoord, "Jane")>>)}])
      [] name = "save_pdf_template" ->
            BagsOf([templateName |-> {Absent, VStr(""), VStr("nda")},
                    fields |-> {Absent, VList(<<>>), VList(SubSeq(FieldPool, 1, 2))}])
      [] name = "delete_pdf_template" ->
            BagsOf([templateName |-> {Absent, VNull, VStr("nda"), VStr("w9")}])
      [] name = "fill_from_template" ->
            BagsOf([filePath |-> {Absent, VStr(FormPdf)},
                    templateName |-> {Absent, VStr("nda"), VStr("w9")},
                    values |-> {Absent, VMap(NoValues), VMap([name |-> "Jane"])}])
      [] OTHER -> {NoValues}

\* names no tool has
UnknownNames == {"no_such_tool", ""}

\* how _connect_messages, _connect_search and _connect_calendar open a database
Connect == [mode |-> "ro", query_only |-> TRUE]

\* the statements that read
ReadVerbs == {"SELECT"}

\* the verbs of the statements a method executes on its connections
Verbs_Touch(method) ==
    IF method \in DalMethods THEN {"SELECT", "UPDATE"} ELSE {}
Verbs(method) ==
    IF method \in DalMethods THEN {"SELECT"} ELSE {}

\* a table after the statements of the method: sqlite refuses a statement that
\* writes on a connection that is read-only or query-only
StoreAfter(method, table) ==
    IF \E verb \in Verbs(method) :
          verb \notin ReadVerbs /\ Connect.mode # "ro" /\ ~Connect.query_only
    THEN <<>> ELSE table

\* the step of a call: r is what call_tool returns
ToolStep(name, bag, r, called) ==
    /\ Call("call_tool", [name |-> name, arguments |-> bag],
            [raised |-> r.raised, message |-> r.message, response |-> r.response,
             invoked |-> r.invoked, a |-> r.a, out |-> r.out,
             opened |-> IF called THEN Opened(r.invoked, r.a, State, r.out) ELSE <<>>,
             connection |-> Connect, statements |-> Verbs(r.invoked)])
    /\ doc' = IF called /\ OutputSuffix(name) # ""
              THEN Saved(doc, r.out, OutputSuffix(name)) ELSE doc
    /\ templates' = IF called THEN TemplatesAfter(name, r.a, r.out, templates)
                    ELSE templates
    /\ conns' = conns \cup (IF called THEN LeftOpen(r.invoked, r.out) ELSE {})
    /\ messages' = StoreAfter(r.invoked, messages)
    /\ attachments' = StoreAfter(r.invoked, attachments)
    /\ fts' = StoreAfter(r.invoked, fts)
    /\ events' = StoreAfter(r.invoked, events)
    /\ attendees' = StoreAfter(r.invoked, attendees)

\* the step of a call that has returned r
Returns(name, bag, r) == ToolStep(name, bag, r, r.invoked # "none")

\* a call of one of the tools `names`
ToolCallOf(names) ==
    /\ \E name \in names, env \in Outcomes :
         \E bag \in ToolBags(name) :
            /\ env = "raise" => Method(name) \in OpaqueMethods
            /\ Returns(name, bag, call_tool(name, bag, State, env))
    /\ UNCHANGED <<cache, dbFiles, server, nowMs>>

Attachment(pk, messagePk, name, mime) ==
    [pk |-> pk, messagePk |-> messagePk, attachmentName |-> name,
     attachmentMIMEType |-> mime]

AttachmentPool ==
    << Attachment(11, 1, "a.pdf", "application/pdf"),
       Attachment(12, 1, NoName, NoMime),
       Attachment(13, 3, "b.png", "image/png") >>

InitTool ==
    /\ messages \in {SeqOfSet(MsgPool, {1, 3, 9}), SeqOfSet(MsgPool, {1, 3, 7})}
    /\ fts = SubSeq(FtsPool, 1, 3)
    /\ events = SubSeq(EventPool, 1, 3)
    /\ attendees = AttendeesOf(events)
    /\ attachments = AttachmentPool
    /\ cache = {CachePath("", 1, "a.pdf"), CachePath("1", 3, "b.png")}
    /\ conns = {}
    /\ dbFiles = DbNames
    /\ server = "serving"
    /\ nowMs = NowMs
    /\ doc = [pages |-> SubSeq(PagePool, 1, 1), image |-> [width |-> 300, height |-> 100],
              defaultSig |-> TRUE, outputs |-> {}]
    /\ templates = EmptyTemplates
    /\ result = NoResult

\* the four tools that look one row up by its identifier
LookupTools == {"get_meeting_transcript", "get_email", "get_event_details", "get_attachment"}

ToolCall == ToolCallOf(ToolNames \cup UnknownNames)

LookupToolCall == ToolCallOf(LookupTools)

GetEmail ==
    /\ \E pk \in {0, 1, 3, 42} :
          CallDb("get_email", [message_pk |-> pk], get_email(pk, messages, fts))
    /\ UNCHANGED <<messages, fts, events, attendees, attachments, cache,
                   dbFiles, server, nowMs, doc, templates>>

GetEventDetails ==
    /\ \E pk \in {0, 1, 42} :
          CallDb("get_event_details", [event_pk |-> pk],
                 get_event_details(pk, events, attendees))
    /\ UNCHANGED <<messages, fts, events, attendees, attachments, cache,
                   dbFiles, server, nowMs, doc, templates>>

AttachmentArgs ==
    [message_pk : {1, 3, 42}, attachment_index : {-1, 0, 1, 2}, extract_text : BOOLEAN]

GetAttachment ==
    /\ \E a \in AttachmentArgs :
          CallDb("get_attachment", a, get_attachment(a, attachments, cache))
    /\ UNCHANGED <<messages, fts, events, attendees, attachments, cache,
                   dbFiles, server, nowMs, doc, templates>>

InitLookup ==
    /\ messages \in {SeqOfSet(MsgPool, S) : S \in {{}, {7}, {3, 4}, {1, 3, 9}, {1, 3, 7}}}
    /\ fts = SubSeq(FtsPool, 1, 3)
    /\ events \in {<<>>, SubSeq(EventPool, 1, 3)}
    /\ attendees = AttendeesOf(events)
    /\ attachments \in {<<>>, AttachmentPool}
    /\ cache \in {{}, {CachePath("", 1, "a.pdf"), CachePath("1", 3, "b.png")}}
    /\ conns = {}
    /\ dbFiles = DbNames
    /\ server = "serving"
    /\ nowMs = NowMs
    /\ doc = [pages |-> SubSeq(PagePool, 1, 1), image |-> [width |-> 300, height |-> 100],
              defaultSig |-> TRUE, outputs |-> {}]
    /\ templates = EmptyTemplates
    /\ result = NoResult

NextLookup ==
    \/ GetTranscript
    \/ GetEmail
    \/ GetEventDetails
    \/ GetAttachment
    \/ LookupToolCall
    \/ Finalize
    \/ Respond

SpecLookup == InitLookup /\ [][NextLookup]_vars

NextTool ==
    \/ ToolCall
    \/ Finalize
    \/ Respond

SpecTool == InitTool /\ [][NextTool]_vars

(***************************************************************************)
(* Start of the server.  server.py constructs SparkDatabase when the       *)
(* module is imported, before the Server object and its tool handlers;     *)
(* dbFiles are the database files that exist at that moment.               *)
(***************************************************************************)

\* the first database file __init__ finds missing, "" when none is
FirstAbsent(files) ==
    CASE "messages" \notin files -> "Messages"
      [] "search" \notin files -> "Search"
      [] "calendar" \notin files -> "Calendar"
      [] OTHER -> ""

\* SparkDatabase.__init__
SparkDatabase_MessagesOnly(files) ==
    IF "messages" \notin files
    THEN [raised |-> TRUE, error |-> "FileNotFoundError",
          message |-> "Messages database not found"]
    ELSE [raised |-> FALSE, error |-> "", message |-> ""]
SparkDatabase(files) ==
    IF FirstAbsent(files) # ""
    THEN [raised |-> TRUE, error |-> "FileNotFoundError",
          message |-> FirstAbsent(files) \o " database not found"]
    ELSE [raised |-> FALSE, error |-> "", message |-> ""]

\* the import of server.py: an exception of the constructor ends it before
\* the handlers are registered
Started(out) ==
    /\ server = "starting"
    /\ result = NoResult
    /\ result' = [op |-> "SparkDatabase", args |-> <<>>, out |-> out]
    /\ server' = IF out.raised THEN "failed" ELSE "serving"
    /\ UNCHANGED <<messages, fts, events, attendees, attachments, cache, conns,
                   dbFiles, nowMs, doc, templates>>

Construct == Started(SparkDatabase(dbFiles))

InitStart ==
    /\ messages = SeqOfSet(MsgPool, {1, 3, 9})
    /\ fts = SubSeq(FtsPool, 1, 3)
    /\ events = SubSeq(EventPool, 1, 3)
    /\ attendees = AttendeesOf(events)
    /\ attachments = AttachmentPool
    /\ cache = {CachePath("", 1, "a.pdf"), CachePath("1", 3, "b.png")}
    /\ conns = {}
    /\ dbFiles \in SUBSET DbNames
    /\ server = "starting"
    /\ nowMs = NowMs
    /\ doc = [pages |-> SubSeq(PagePool, 1, 1), image |-> [width |-> 300, height |-> 100],
              defaultSig |-> TRUE, outputs |-> {}]
    /\ templates = EmptyTemplates
    /\ result = NoResult

NextStart ==
    \/ Construct
    \/ ToolCall
    \/ Finalize
    \/ Respond

SpecStart == InitStart /\ [][NextStart]_vars

(***************************************************************************)
(* The list and search operations with the statements they execute.        *)
(***************************************************************************)

SearchArgsDated ==
    [query : {"invoice", "notes"}, start_date : DateArgs \cup {BadDate},
     end_date : DateArgs, limit : Limits]

AttachmentSearchArgs ==
    [filename : {NoText, star_pdf}, mime_type : {NoText, application_any, image_png},
     limit : Limits]

\* an operation with its return value and the statements it has executed
Traced(op, a, out) ==
    /\ CallDb(op, a, [raised |-> out.raised, out |-> out,
                      statements |-> Statements(op, a, messages, fts)])
    /\ UNCHANGED <<messages, fts, events, attendees, attachments, cache,
                   dbFiles, server, nowMs, doc, templates>>

TracedListTranscripts ==
    \E a \in TranscriptArgs :
        Traced("list_transcripts", a, list_transcripts(a, messages, fts))

TracedListEmails ==
    \E a \in EmailArgs : Traced("list_emails", a, list_emails(a, messages))

TracedSearchEmails ==
    \E a \in SearchArgsDated :
        Traced("search_emails", a, search_emails(a, messages, fts))

TracedSearchTranscripts ==
    \E a \in SearchArgsDated :
        Traced("search_transcripts", a, search_transcripts(a, messages, fts))

TracedSearchAttachments ==
    \E a \in AttachmentSearchArgs :
        Traced("search_attachments", a, search_attachments(a, messages, attachments))

InitWhere ==
    /\ messages \in {SeqOfSet(MsgPool, {1, 3, 9}), SeqOfSet(MsgPool, {1, 3, 7})}
    /\ fts \in {<<>>, SubSeq(FtsPool, 1, 3)}
    /\ events = <<>>
    /\ attendees = <<>>
    /\ attachments = AttachmentPool
    /\ cache = {}
    /\ conns = {}
    /\ dbFiles = DbNames
    /\ server = "serving"
    /\ nowMs = NowMs
    /\ doc = <<>>
    /\ templates = EmptyTemplates
    /\ result = NoResult

NextWhere ==
    \/ TracedListTranscripts
    \/ TracedListEmails
    \/ TracedSearchEmails
    \/ TracedSearchTranscripts
    \/ TracedSearchAttachments
    \/ Finalize
    \/ Respond

SpecWhere == InitWhere /\ [][NextWhere]_vars

(***************************************************************************)
(* The attachments of a message and the files of the attachment cache.     *)
(***************************************************************************)

\* SparkDatabase.list_attachments
list_attachments(a, attT, files) ==
    LET rows == AttachmentRows(a.message_pk, attT)
        PathOf(i) == get_attachment_path(a.message_pk, rows[i].attachmentName, files)
    IN [raised |-> FALSE,
        total |-> Len(rows),
        items |-> [i \in 1..Len(rows) |->
                     [attachmentPk |-> rows[i].pk,
                      filename |-> IF rows[i].attachmentName = NoName
                                   THEN DefaultName(i - 1)
                                   ELSE rows[i].attachmentName,
                      index |-> i - 1,
                      isDownloaded |-> PathOf(i).dir # NoPath /\ PathOf(i) \in files]]]

ListAttachmentsArgs == [message_pk : {1, 3, 42}]

ListAttachments ==
    /\ \E a \in ListAttachmentsArgs :
          CallDb("list_attachments", a, list_attachments(a, attachments, cache))
    /\ UNCHANGED <<messages, fts, events, attendees, attachments, cache,
                   dbFiles, server, nowMs, doc, templates>>

\* the files the cache directory may hold
CacheFiles ==
    {CachePath("1", 1, "a.pdf"), CachePath("", 1, "a.pdf"),
     CachePath("1", 1, DefaultName(1)), CachePath("", 3, "b.png")}

InitAttach ==
    /\ messages = SeqOfSet(MsgPool, {1, 3, 9})
    /\ fts = <<>>
    /\ events = <<>>
    /\ attendees = <<>>
    /\ attachments \in {<<>>, AttachmentPool}
    /\ cache \in SUBSET CacheFiles
    /\ conns = {}
    /\ dbFiles = DbNames
    /\ server = "serving"
    /\ nowMs = NowMs
    /\ doc = <<>>
    /\ templates = EmptyTemplates
    /\ result = NoResult

NextAttach ==
    \/ ListAttachments
    \/ GetAttachment
    \/ Respond

SpecAttach == InitAttach /\ [][NextAttach]_vars

(***************************************************************************)
(* find_action_items on stores with old and recent mail.                   *)
(***************************************************************************)

\* mail received four days ago, and a transcript of today, next to rows of
\* the message pool
ActionMsgPool ==
    << MsgPool[1],
       Msg(10, MetaPlain, 16 * Day, 1, 0, 0, bob, 4),
       Msg(11, MetaKept, 19 * Day + 50, 1, 0, 0, bob, 5),
       MsgPool[9],
       Msg(12, MetaNull, 18 * Day + 10, 1, 0, 1, alice, 6) >>

ActionFtsPool ==
    << FtsRow(1, {"action"}, 0 - 5, 10),
       FtsRow(10, {"action"}, 0 - 7, 3),
       FtsRow(11, {"action"}, 0 - 6, 8),
       FtsRow(9, {"action", "notes"}, 0 - 3, 7),
       FtsRow(12, {"notes"}, 0 - 8, 2) >>

InitAction ==
    /\ messages \in Datasets(ActionMsgPool, MaxStore)
    /\ fts \in Datasets(ActionFtsPool, MaxFts)
    /\ nowMs = NowMs
    /\ InitOther

NextAction ==
    \/ FindActionItems
    \/ Respond

SpecAction == InitAction /\ [][NextAction]_vars

(***************************************************************************)
(* The PDF operations on page numbers of every kind.                       *)
(***************************************************************************)

\* PDFOperations.annotate_pdf
annotate_pdf(a, d) ==
    IF ~PathExists(a.pdf_path) THEN Raised
    ELSE LET texts == PlaceAnnotations(a.annotations, d.pages)
         IN [raised |-> FALSE, success |-> TRUE, texts |-> texts,
             annotationsAdded |-> Len(texts)]

\* PDFOperations.get_pdf_layout: the pages it reports; page = None (NoCoord)
\* asks for all of them
get_pdf_layout(a, d) ==
    IF ~PathExists(a.pdf_path) THEN Raised
    ELSE LET n == Len(d.pages)
             page_indices == IF a.page # NoCoord THEN <<PageIdx(a.page, n)>>
                             ELSE [i \in 1..n |-> i - 1]
             Valid(idx) == ValidIdx(idx, n)
             kept == SelectSeq(page_indices, Valid)
         IN [raised |-> FALSE,
             pages |-> [i \in 1..Len(kept) |->
                          [pageNumber |-> kept[i] + 1,
                           width |-> d.pages[kept[i] + 1].width,
                           height |-> d.pages[kept[i] + 1].height]],
             totalPages |-> n]

PageNumbers == (0 - 2)..(MaxPages + 1)

PagedSignArgs ==
    [pdf_path : {FormPdf}, signature_image_path : {SigPng}, page : PageNumbers,
     x : {72}, y : {NoCoord}, width : {150}]

PagedAnnoLists ==
    {<<Anno(p, 72, 100, NoCoord, "first"), Anno(q, 72, NoCoord, 100, "second")>> :
        p \in PageNumbers, q \in {1, MaxPages}}

PagedFillSignArgs ==
    [pdf_path : {FormPdf}, signature_image_path : {SigPng},
     fields : {{}}, checkboxes : {{}}, page : PageNumbers, x : {72}, y : {NoCoord},
     y_from_top : {NoCoord}, width : {150}, signature_field : {NoField},
     text_annotations : {<<>>}]
    \cup
    [pdf_path : {FormPdf}, signature_image_path : {SigPng},
     fields : {{}}, checkboxes : {{}}, page : {-1}, x : {72}, y : {NoCoord},
     y_from_top : {NoCoord}, width : {150}, signature_field : {NoField},
     text_annotations : PagedAnnoLists]

PagedSaveArgs ==
    [template_name : {"nda"},
     fields : {<<Field("name", "text", p, 72, 700, NoCoord),
                 Field("date", "text", 1, 300, 100, NoCoord)>> : p \in PageNumbers},
     description : {""}]

PagedFillArgs ==
    [pdf_path : {FormPdf}, template_name : {"nda"},
     values : {[k \in {"name", "date"} |-> "Jane"]},
     sign : {FALSE}, signature_image_path : {NoPath}]

PagedSignPdf ==
    /\ \E a \in PagedSignArgs :
          LET out == add_signature(a, doc)
          IN /\ Call("sign_pdf", a, out)
             /\ doc' = Saved(doc, out, "_signed.pdf")
    /\ UNCHANGED <<messages, fts, events, attendees, attachments, cache, conns,
                   dbFiles, server, nowMs, templates>>

PagedFillAndSignPdf ==
    /\ \E a \in PagedFillSignArgs :
          LET out == fill_and_sign(a, doc)
          IN /\ Call("fill_and_sign_pdf", a, out)
             /\ doc' = Saved(doc, out, "_filled_signed.pdf")
    /\ UNCHANGED <<messages, fts, events, attendees, attachments, cache, conns,
                   dbFiles, server, nowMs, templates>>

AnnotatePdf ==
    /\ \E a \in [pdf_path : {FormPdf, MissingPdf}, annotations : PagedAnnoLists] :
          LET out == annotate_pdf(a, doc)
          IN /\ Call("annotate_pdf", a, out)
             /\ doc' = Saved(doc, out, "_annotated.pdf")
    /\ UNCHANGED <<messages, fts, events, attendees, attachments, cache, conns,
                   dbFiles, server, nowMs, templates>>

GetPdfLayout ==
    /\ \E a \in [pdf_path : {FormPdf}, page : PageNumbers \cup {NoCoord}] :
          Call("get_pdf_layout", a, get_pdf_layout(a, doc))
    /\ UNCHANGED <<messages, fts, events, attendees, attachments, cache, conns,
                   dbFiles, server, nowMs, doc, templates>>

PagedSavePdfTemplate ==
    /\ \E a \in PagedSaveArgs :
          /\ Call("save_pdf_template", a, save_pdf_template(a))
          /\ templates' = save_template(templates, a.template_name, TemplateData(a))
    /\ UNCHANGED <<messages, fts, events, attendees, attachments, cache, conns,
                   dbFiles, server, nowMs, doc>>

PagedFillFromTemplate ==
    /\ \E a \in PagedFillArgs :
          LET out == fill_from_template(a, templates, doc, nowMs)
          IN /\ Call("fill_from_template", a, out)
             /\ doc' = Saved(doc, out, "_filled.pdf")
    /\ UNCHANGED <<messages, fts, events, attendees, attachments, cache, conns,
                   dbFiles, server, nowMs, templates>>

InitPage ==
    /\ templates = EmptyTemplates
    /\ doc \in [pages : TplDocs, image : {[width |-> 300, height |-> 100]},
                defaultSig : {TRUE}, outputs : {{}}]
    /\ messages = <<>>
    /\ fts = <<>>
    /\ events = <<>>
    /\ attendees = <<>>
    /\ InitServing
    /\ nowMs = NowMs
    /\ result = NoResult

NextPage ==
    \/ PagedSignPdf
    \/ PagedFillAndSignPdf
    \/ AnnotatePdf
    \/ GetPdfLayout
    \/ PagedSavePdfTemplate
    \/ PagedFillFromTemplate
    \/ Respond

SpecPage == InitPage /\ [][NextPage]_vars

----------------------------------------------------------------------------
(* Vocabulary of the claims about messages.  These definitions restate the *)
(* specification's words on a message row; they do not use the WHERE       *)
(* clauses of the operations.                                              *)

\* the metadata of m contains the transcript marker
Marked(m) ==
    /\ ~m.meta.isNull
    /\ \E i \in 1..Len(m.meta.pairs) :
          \/ LikeContains(m.meta.pairs[i].k, mtid)
          \/ m.meta.pairs[i].v.t = "str" /\ LikeContains(m.meta.pairs[i].v.s, mtid)

\* the kept flag of m is 1
KeptFlag(m) ==
    /\ m.meta.wf
    /\ \E i \in 1..Len(m.meta.pairs) :
          m.meta.pairs[i].k = mtskp /\ m.meta.pairs[i].v = JInt(1)

\* m carries a calendar-event summary
HasEventSummary(m) ==
    /\ m.meta.wf
    /\ \E i \in 1..Len(m.meta.pairs) :
          m.meta.pairs[i].k = mtes /\ m.meta.pairs[i].v.t # "null"

Stored == Range(messages)

StoredPks == {m.pk : m \in Stored}

ByPk(pk) == CHOOSE m \in Stored : m.pk = pk

ItemPks(out) == {out.items[i].messagePk : i \in 1..Len(out.items)}

Returned(op) == result.op = op /\ ~result.out.raised

InDateWindow(m, a) ==
    /\ a.start_date # NoDate => m.receivedDate >= a.start_date * Day
    /\ a.end_date # NoDate => m.receivedDate <= a.end_date * Day

\* the rows that match the filters of a list_transcripts call
TranscriptMatch(m, a) ==
    /\ Marked(m)
    /\ a.only_kept => KeptFlag(m)
    /\ InDateWindow(m, a)
    /\ ~a.include_ad_hoc => HasEventSummary(m)

\* the rows that match the filters of a list_emails call
EmailMatch(m, a) ==
    /\ ~Marked(m)
    /\ a.folder = "inbox" => m.inInbox = 1
    /\ a.folder = "sent" => m.inSent = 1
    /\ a.folder = "drafts" => m.inDrafts = 1
    /\ a.unread_only => m.unseen = 1
    /\ InDateWindow(m, a)
    /\ a.sender # NoText => LikeContains(m.messageFrom, a.sender)

\* the messagePks a list operation returns over all pages of size a.limit
\* (a page that raises returns nothing)
PagePks(out) == IF out.raised THEN {} ELSE ItemPks(out)

AllTranscriptPages(a) ==
    UNION {PagePks(list_transcripts([a EXCEPT !.offset = k * a.limit], messages, fts)) :
              k \in 0..Len(messages)}

AllEmailPages(a) ==
    UNION {PagePks(list_emails([a EXCEPT !.offset = k * a.limit], messages)) :
              k \in 0..Len(messages)}

\* the pks of the hits the full-text engine has for a query
HitPks(query) == {fts[i].messagePk : i \in {j \in 1..Len(fts) : query \in fts[j].terms}}

----------------------------------------------------------------------------
\* C1: every message is listed as a transcript (only_kept = false, no date
\* filter, all pages) iff its metadata contains the marker, is listed as an
\* email (folder = 'all', no other filter, all pages) iff it does not, is
\* returned by search_emails, when it is a full-text hit that the limit does
\* not cut, iff it does not; and no result set mixes the two kinds.
C1_PartitionClaim ==
    /\ (result.op = "list_transcripts" /\ ~result.args.only_kept /\ result.args.limit >= 1)
         => \A m \in Stored : Marked(m) <=> m.pk \in AllTranscriptPages(result.args)
    /\ (result.op = "list_emails" /\ result.args.folder = "all" /\ result.args.limit >= 1)
         => \A m \in Stored : ~Marked(m) <=> m.pk \in AllEmailPages(result.args)
    /\ (Returned("search_emails") /\ result.args.start_date = NoDate)
         => \A m \in Stored :
               /\ m.pk \in ItemPks(result.out) => ~Marked(m)
               /\ (~Marked(m) /\ m.pk \in HitPks(result.args.query)
                     /\ Len(result.out.items) < result.args.limit)
                    => m.pk \in ItemPks(result.out)
    /\ (Returned("list_transcripts") \/ Returned("search_transcripts"))
         => \A pk \in ItemPks(result.out) : Marked(ByPk(pk))
    /\ (Returned("list_emails") \/ Returned("search_emails"))
         => \A pk \in ItemPks(result.out) : ~Marked(ByPk(pk))

\* C2: list_transcripts, search_transcripts and get_statistics accept a
\* message as a transcript exactly when get_transcript(message_pk) does, and
\* every messagePk list_transcripts returns is found by get_transcript.
C2_SameTestClaim ==
    /\ (Returned("get_transcript") /\ result.args.transcript_id = NoId
          /\ result.args.message_pk \in StoredPks)
         => (result.out.found <=> Marked(ByPk(result.args.message_pk)))
    /\ Returned("list_transcripts")
         => \A pk \in ItemPks(result.out) :
               get_transcript([message_pk |-> pk, transcript_id |-> NoId],
                              messages, fts).found
    /\ Returned("get_statistics")
         => result.out.totalTranscripts =
               Cardinality({m \in Stored :
                   get_transcript([message_pk |-> m.pk, transcript_id |-> NoId],
                                  messages, fts).found})

\* C3: a page of list_transcripts or list_emails has min(L, max(0, total - O))
\* items, at most L, and its total is the number of rows that match the
\* filters, whatever L and O are.
C3_Pagination ==
    /\ Returned("list_transcripts") =>
          LET n == Cardinality({m \in Stored : TranscriptMatch(m, result.args)})
          IN /\ result.out.total = n
             /\ Len(result.out.items) <= result.args.limit
             /\ Len(result.out.items)
                  = Min(result.args.limit, Max(0, n - result.args.offset))
    /\ Returned("list_emails") =>
          LET n == Cardinality({m \in Stored : EmailMatch(m, result.args)})
          IN /\ result.out.total = n
             /\ Len(result.out.items) <= result.args.limit
             /\ Len(result.out.items)
                  = Min(result.args.limit, Max(0, n - result.args.offset))

\* a second page that the limit cuts short of the total
C3_Witness ==
    /\ Returned("list_transcripts")
    /\ result.args.limit = 1 /\ result.args.offset = 1
    /\ result.out.total = 3 /\ Len(result.out.items) = 1

\* C4: list_transcripts with only_kept = true returns only marked messages
\* whose kept flag is 1 and its total is their number; with only_kept = false
\* the total is the number of marked messages.  With 5 kept and 3 deleted
\* transcripts, limit = 2 gives 2 items and total 5, and only_kept = false
\* gives total 8.
C4_OnlyKept ==
    Returned("list_transcripts") =>
        LET marked == {m \in Stored : Marked(m)}
            kept == {m \in marked : KeptFlag(m)}
            a == result.args
        IN /\ a.only_kept =>
                 /\ \A pk \in ItemPks(result.out) : ByPk(pk) \in kept
                 /\ result.out.total = Cardinality(kept)
           /\ ~a.only_kept => result.out.total = Cardinality(marked)
           /\ (Cardinality(kept) = 5 /\ Cardinality(marked \ kept) = 3
                 /\ a.limit = 2 /\ a.offset = 0) =>
                 /\ Len(result.out.items) = 2
                 /\ result.out.total = IF a.only_kept THEN 5 ELSE 8

\* the scenario: 5 kept, 3 deleted, only_kept = true, limit = 2
C4_Witness ==
    /\ Returned("list_transcripts")
    /\ result.args.only_kept /\ result.args.limit = 2
    /\ Cardinality({m \in Stored : Marked(m) /\ KeptFlag(m)}) = 5
    /\ Cardinality({m \in Stored : Marked(m) /\ ~KeptFlag(m)}) = 3
    /\ Len(result.out.items) = 2 /\ result.out.total = 5

\* C5: every result of search_emails, search_transcripts and
\* find_action_items is a full-text hit whose message is in the transactional
\* store and passes the operation's filter; a hit without a stored message is
\* dropped without an error, so 3 hits of which 1 message is gone give 2 results.
C5_JoinNeverFabricates ==
    /\ \A op \in {"search_emails", "search_transcripts"} :
          Returned(op) =>
             /\ \A pk \in ItemPks(result.out) :
                   /\ pk \in HitPks(result.args.query)
                   /\ pk \in StoredPks
                   /\ Marked(ByPk(pk)) <=> (op = "search_transcripts")
                   /\ InDateWindow(ByPk(pk), result.args)
             /\ result.out.total = Len(result.out.items)
    /\ Returned("find_action_items") =>
          \A pk \in ItemPks(result.out) :
             /\ pk \in HitPks(ActionQuery)
             /\ pk \in StoredPks
             /\ ~Marked(ByPk(pk))
    /\ (result.op \in {"search_emails", "search_transcripts"}
          /\ result.args.start_date # BadDate) => ~result.out.raised
    /\ result.op = "find_action_items" => ~result.out.raised
    /\ (Returned("search_emails") /\ result.args.start_date = NoDate
          /\ result.args.limit = 2
          /\ Cardinality({i \in 1..Len(fts) : result.args.query \in fts[i].terms}) = 3
          /\ Cardinality(HitPks(result.args.query) \ StoredPks) = 1
          /\ \A pk \in HitPks(result.args.query) \cap StoredPks : ~Marked(ByPk(pk)))
         => Len(result.out.items) = 2

\* 3 hits, the best-ranked one without a stored message: 2 results
C5_Witness ==
    /\ Returned("search_emails")
    /\ result.args.query = "invoice" /\ result.args.limit = 2
    /\ Cardinality(HitPks("invoice")) = 3
    /\ 99 \in HitPks("invoice") /\ 99 \notin StoredPks
    /\ ItemPks(result.out) = {1, 9}

\* C6: every message find_pending_responses returns is in the inbox, is not
\* marked, was received at or after the cutoff, and no stored message of its
\* conversation is marked sent with a later received timestamp.
C6_PendingResponses ==
    Returned("find_pending_responses") =>
        \A pk \in ItemPks(result.out) :
            LET m == ByPk(pk)
            IN /\ pk \in StoredPks
               /\ m.inInbox = 1
               /\ ~Marked(m)
               /\ m.receivedDate >= (nowMs \div 1000) - result.args.days * Day
               /\ ~\E r \in Stored :
                      /\ r.conversationPk # NullInt
                      /\ r.conversationPk = m.conversationPk
                      /\ r.inSent = 1
                      /\ r.receivedDate > m.receivedDate

\* conversation 1: message 1 has the later sent reply 2 and is left out,
\* message 9 came after the reply and is returned
C6_Witness ==
    /\ Returned("find_pending_responses")
    /\ {1, 2, 9} \subseteq StoredPks
    /\ 9 \in ItemPks(result.out)
    /\ 1 \notin ItemPks(result.out)
    /\ result.args.limit = MaxLimit

----------------------------------------------------------------------------
(* Vocabulary of the claims about events *)

EventSet == Range(events)

\* status known and not cancelled, start within [now, now + hours_ahead)
Upcoming(e, a) ==
    /\ e.status # NullInt /\ e.status # StatusCancelled
    /\ e.dstart >= nowMs \div 1000
    /\ e.dstart < (nowMs \div 1000) + a.hours_ahead * 3600

\* more than one attendee, or a conference link, or longer than 30 minutes
PrepTrigger(e) ==
    \/ Cardinality({i \in 1..Len(attendees) : attendees[i] = e.pk}) > 1
    \/ (e.conferenceInfo # NullText /\ Len(e.conferenceInfo) > 0)
    \/ e.dend - e.dstart > 30 * 60

ReportedPks == {result.out.items[i].eventPk : i \in 1..Len(result.out.items)}

\* C7: an upcoming event (status not cancelled, start within
\* [now, now + hours_ahead)) is reported iff it has more than one attendee or
\* a conference link or lasts longer than 30 minutes, and a cancelled event
\* is never reported.  Read with `limit` as the cap on the result: an event
\* with a trigger may be left out only when `limit` events are reported.
C7_PrepIffClaim ==
    Returned("find_events_needing_prep") =>
        \A e \in EventSet :
            /\ e.pk \in ReportedPks => (Upcoming(e, result.args) /\ PrepTrigger(e))
            /\ (Upcoming(e, result.args) /\ PrepTrigger(e) /\ e.pk \notin ReportedPks)
                  => Len(result.out.items) = result.args.limit
            /\ e.status = StatusCancelled => e.pk \notin ReportedPks

----------------------------------------------------------------------------
(* Vocabulary of the claims about signature placement *)

SignedOk == (Returned("sign_pdf") \/ Returned("fill_and_sign_pdf"))

\* the widgets of the document that carry the name given as signature field
NamedWidgets ==
    IF result.op # "fill_and_sign_pdf" \/ result.args.signature_field \in {NoField, ""}
    THEN {}
    ELSE {pw \in UNION {{<<p, k>> : k \in 1..Len(doc.pages[p].widgets)} :
                            p \in 1..Len(doc.pages)} :
             doc.pages[pw[1]].widgets[pw[2]].field_name = result.args.signature_field}

ByCoordinates == NamedWidgets = {}

YFromTopGiven ==
    result.op = "fill_and_sign_pdf" /\ result.args.y_from_top # NoCoord

\* C8: placed by coordinates, the rectangle is W wide and W * R high
\* (R = image height / image width) on every page; with yFromTop its bottom
\* edge is yFromTop and its top edge is yFromTop - W * R.
C8_SignatureSize ==
    (SignedOk /\ ByCoordinates) =>
        LET r == result.out.rect
            W == result.args.width
            img == doc.image
        IN /\ r.x1 - r.x0 = W
           /\ (r.y1 - r.y0) * img.width = W * img.height
           /\ YFromTopGiven =>
                 /\ r.y1 = result.args.y_from_top
                 /\ (result.args.y_from_top - r.y0) * img.width = W * img.height

\* a tall image on the second page of a two-page document, anchored by yFromTop
C8_Witness ==
    /\ Returned("fill_and_sign_pdf") /\ ByCoordinates
    /\ result.args.y_from_top = 700 /\ result.args.width = 60
    /\ doc.image = [width |-> 100, height |-> 200]
    /\ Len(doc.pages) = 2 /\ result.out.page = 2
    /\ result.out.rect.y0 = 580 /\ result.out.rect.y1 = 700

\* C9: fill_and_sign takes the rectangle and page of the named signature
\* field when the document has it; otherwise the bottom edge is yFromTop
\* when yFromTop is given (also when y is given); otherwise the rectangle is
\* placed by y; otherwise it sits 50 points above the bottom edge.  Without
\* a field, x is the left edge when given and page width - W - 50 when not,
\* whatever the vertical choice.
C9_Precedence ==
    Returned("fill_and_sign_pdf") =>
        LET a == result.args
            r == result.out.rect
            pg == doc.pages[result.out.page]
        IN /\ NamedWidgets # {} =>
                 \E pw \in NamedWidgets :
                    /\ result.out.page = pw[1]
                    /\ r = doc.pages[pw[1]].widgets[pw[2]].rect
           /\ NamedWidgets = {} =>
                 /\ result.out.page = (IF a.page = -1 THEN Len(doc.pages) ELSE a.page)
                 /\ a.y_from_top # NoCoord => r.y1 = a.y_from_top
                 /\ (a.y_from_top = NoCoord /\ a.y # NoCoord) =>
                        (r.y0 = a.y \/ pg.height - r.y1 = a.y)
                 /\ (a.y_from_top = NoCoord /\ a.y = NoCoord) =>
                        r.y1 = pg.height - 50
                 /\ a.x # NoCoord => r.x0 = a.x
                 /\ a.x = NoCoord => r.x0 = pg.width - a.width - 50

\* y and yFromTop both given, no field, no x: yFromTop decides, x is the default
C9_Witness ==
    /\ Returned("fill_and_sign_pdf")
    /\ NamedWidgets = {}
    /\ result.args.signature_field = "other"
    /\ result.args.y = 500 /\ result.args.y_from_top = 700
    /\ result.args.x = NoCoord
    /\ result.out.rect.y1 = 700
    /\ result.out.rect.x0 = doc.pages[result.out.page].width - result.args.width - 50

----------------------------------------------------------------------------
(* Vocabulary of the claims about templates *)

\* the field list held by the store under the name of the call
StoredFields == templates[result.args.template_name].data.fields

IsSignature(f) == f.type = "signature"

NonSignature(fields) ==
    LET Keep(f) == ~IsSignature(f) IN SelectSeq(fields, Keep)

\* the call gives a value for every non-signature field of the template
ValueForEvery(fields) ==
    \A i \in 1..Len(fields) :
        ~IsSignature(fields[i]) =>
            /\ fields[i].fieldName \in DOMAIN result.args.values
            /\ result.args.values[fields[i].fieldName] # NoneValue

\* p = -1 is the last page, 1..N is that page, nothing else is a page
PageResolves(p) == p = -1 \/ (1 <= p /\ p <= Len(doc.pages))
ResolvedPage(p) == IF p = -1 THEN Len(doc.pages) ELSE p

\* texts are the placements of expected, one each and in order: same page,
\* same x, and y above the bottom edge of that page
PlacedAsSaved(texts, expected) ==
    /\ Len(texts) = Len(expected)
    /\ \A i \in 1..Len(expected) :
          /\ texts[i].page = ResolvedPage(expected[i].page)
          /\ texts[i].x = expected[i].x
          /\ doc.pages[texts[i].page].height - texts[i].y = expected[i].y
          /\ texts[i].fieldName = expected[i].fieldName

\* a save leaves exactly the field list it was given in the store
SaveKeepsFields ==
    Returned("save_pdf_template") =>
        LET f == templates[result.args.template_name]
        IN f.exists /\ f.wf /\ f.data.fields = result.args.fields

\* C10 as claimed: after a save, a fill with a value for every non-signature
\* field places one text per non-signature field at the saved page and x and
\* at the saved y above the page bottom; fieldsFilled is the number of
\* non-signature fields.
C10_RoundTripClaim ==
    /\ SaveKeepsFields
    /\ (Returned("fill_from_template") /\ ValueForEvery(StoredFields)) =>
          /\ PlacedAsSaved(result.out.texts, NonSignature(StoredFields))
          /\ result.out.fieldsFilled = Len(NonSignature(StoredFields))

\* C10 amended: the round trip holds for the non-signature fields whose page
\* resolves on the document (-1 or 1..N); a field whose page does not
\* resolve is skipped and not counted in fieldsFilled.
C10_RoundTripResolved ==
    /\ SaveKeepsFields
    /\ (Returned("fill_from_template") /\ ValueForEvery(StoredFields)) =>
          LET Ok(f) == PageResolves(f.page)
              expected == SelectSeq(NonSignature(StoredFields), Ok)
          IN /\ PlacedAsSaved(result.out.texts, expected)
             /\ result.out.fieldsFilled = Len(expected)

\* a saved template of a text field on page 1 and a date field on the last
\* page, filled on a two-page document
C10_Witness ==
    /\ Returned("fill_from_template") /\ ValueForEvery(StoredFields)
    /\ Len(StoredFields) = 2
    /\ StoredFields[1].fieldName = "name" /\ StoredFields[2].fieldName = "date"
    /\ Len(doc.pages) = 2
    /\ result.out.fieldsFilled = 2
    /\ result.out.texts[1].page = 1 /\ result.out.texts[2].page = 2

\* the names list_pdf_templates reports on a store: files that parse
ListedNames(store) == {n \in DOMAIN store : store[n].exists /\ store[n].wf}

\* a step that is the call `op`
IsCall(op) == result = NoResult /\ result'.op = op

\* C11: delete_pdf_template on a name with no template in the store answers
\* success = false with a 'not found' message, raises nothing and leaves the
\* store, hence what list_pdf_templates reports, as it was; the name is
\* still absent afterwards, so a repeated delete is such a step again.
C11_DeleteMissing ==
    [][(IsCall("delete_pdf_template") /\ ~templates[result'.args.template_name].exists) =>
          /\ ~result'.out.raised
          /\ result'.out.success = FALSE
          /\ result'.out.message = "not found"
          /\ templates' = templates
          /\ ListedNames(templates') = ListedNames(templates)
          /\ ~templates'[result'.args.template_name].exists]_vars

\* "w9" was deleted while "nda" is stored and "w9" is not
C11_Witness ==
    /\ result.op = "delete_pdf_template" /\ result.args.template_name = "w9"
    /\ ~result.out.success
    /\ ListedNames(templates) = {"nda"}

\* the other names keep their files
OthersKept(name) ==
    \A n \in DOMAIN templates : n # name => templates'[n] = templates[n]

\* C12: the template store follows the calls.  A save leaves under its name
\* exactly the data it was given (name, description, fields; nothing of the
\* earlier content) and a delete leaves no file under its name, both without
\* touching another name; list_pdf_templates and fill_from_template leave
\* the store as it is, and list_pdf_templates reports exactly the names that
\* hold a template.
C12_StoreFollowsCalls ==
    [][/\ IsCall("save_pdf_template") =>
             LET a == result'.args
                 f == templates'[a.template_name]
             IN /\ f.exists /\ f.wf
                /\ DOMAIN f.data = {"name", "description", "fields"}
                /\ f.data.name = a.template_name
                /\ f.data.fields = a.fields
                /\ f.data.description = (IF a.description = "None" THEN "" ELSE a.description)
                /\ OthersKept(a.template_name)
       /\ IsCall("delete_pdf_template") =>
             /\ ~templates'[result'.args.template_name].exists
             /\ OthersKept(result'.args.template_name)
             /\ result'.out.success = templates[result'.args.template_name].exists
       /\ IsCall("list_pdf_templates") =>
             /\ templates' = templates
             /\ {t.name : t \in result'.out.templates} = ListedNames(templates)
             /\ result'.out.total = Cardinality(ListedNames(templates))
       /\ IsCall("fill_from_template") => templates' = templates
       /\ result # NoResult => templates' = templates]_vars

\* "nda" was saved and deleted again while the saved "w9" stays
C12_Witness ==
    /\ result.op = "delete_pdf_template" /\ result.args.template_name = "nda"
    /\ result.out.success
    /\ ~templates["nda"].exists
    /\ templates["w9"].exists /\ templates["w9"].wf
    /\ templates["w9"].data.description = "tax"

----------------------------------------------------------------------------
(* Vocabulary of the claims about the dispatch shim.                       *)

\* the last step was a call of call_tool
ToolAnswered == result # NoResult /\ result.op = "call_tool"

\* the call named a tool and left out one of the arguments it requires
OmitsRequired(call) ==
    /\ call.name \in ToolNames
    /\ \E arg \in SchemaRequired(call.name) : arg \notin DOMAIN call.arguments

\* the required arguments the call gives no value: left out, null or empty
Unsupplied(call) ==
    {arg \in SchemaRequired(call.name) :
        \/ arg \notin DOMAIN call.arguments
        \/ call.arguments[arg] \in {VNull, VInt(0), VStr(""), VList(<<>>), VMap(NoValues)}}

\* the response is the single text `text`
AnswersText(out, text) == out.response = <<[type |-> "text", text |-> text]>>

\* C13: a tool call that omits a required argument is answered with the
\* text 'Error: <arg> required' naming a required argument it did not
\* supply, raises nothing, invokes no method, opens no connection, writes
\* no file and leaves the template store as it was.
C13_MissingArgument ==
    [][(IsCall("call_tool") /\ OmitsRequired(result'.args)) =>
          /\ ~result'.out.raised
          /\ \E arg \in Unsupplied(result'.args) :
                AnswersText(result'.out, "Error: " \o arg \o " required")
          /\ Cardinality(Unsupplied(result'.args)) = 1 =>
                \A arg \in Unsupplied(result'.args) : arg \notin DOMAIN result'.args.arguments
          /\ result'.out.invoked = "none"
          /\ result'.out.opened = <<>>
          /\ conns' = conns
          /\ doc' = doc
          /\ templates' = templates]_vars

C13_Witness ==
    /\ ToolAnswered
    /\ result.args.name = "annotate_pdf"
    /\ DOMAIN result.args.arguments = {"filePath"}
    /\ AnswersText(result.out, "Error: annotations required")
    /\ "_annotated.pdf" \notin doc.outputs
    /\ "_signed.pdf" \in doc.outputs
    /\ templates["nda"].exists

\* C14: every call of call_tool returns one text content and lets no
\* exception out: an exception in the handler gives 'Error: <message>', an
\* unknown name gives 'Unknown tool: <name>', and the server goes on
\* serving whatever it answered, so that the next call is taken.
C14_AlwaysAnswers ==
    /\ server = "serving"
    /\ ToolAnswered =>
          /\ ~result.out.raised
          /\ Len(result.out.response) = 1
          /\ result.out.response[1].type = "text"
          /\ result.out.message # "" =>
                AnswersText(result.out, "Error: " \o result.out.message)
          /\ result.out.out.raised => result.out.message # ""
          /\ result.args.name \notin ToolNames =>
                AnswersText(result.out, "Unknown tool: " \o result.args.name)

\* a call answered with an error text after an earlier call was: the
\* earlier one raised in a statement on the calendar database
C14_Witness ==
    /\ ToolAnswered
    /\ result.args.name = "list_meeting_transcripts"
    /\ result.out.invoked = "list_transcripts"
    /\ result.out.out.raised
    /\ AnswersText(result.out, "Error: list_transcripts failed")
    /\ conns = {"calendar", "messages"}

----------------------------------------------------------------------------
(* Vocabulary of the claims about lookups by identifier.                   *)

\* a message whose metadata is text that does not parse as JSON
MalformedMeta(m) == ~m.meta.isNull /\ m.meta # MetaEmpty /\ ~m.meta.wf

\* the message carries the transcript id tid in metadata that parses
HasTranscriptId(m, tid) ==
    /\ ~m.meta.isNull
    /\ m.meta.wf
    /\ \E i \in 1..Len(m.meta.pairs) :
          m.meta.pairs[i].k = mtid /\ m.meta.pairs[i].v = JStr(tid)

MessagePks == {messages[i].pk : i \in 1..Len(messages)}
EventPks == {events[i].pk : i \in 1..Len(events)}
AttachmentsOf(pk) == {i \in 1..Len(attachments) : attachments[i].messagePk = pk}

\* the identifier of a lookup of the data access layer matches no row
NoRowMatches(op, a) ==
    CASE op = "get_transcript" ->
            IF a.message_pk # NoPk /\ a.message_pk # 0
            THEN a.message_pk \notin MessagePks
            ELSE \/ a.transcript_id = NoId
                 \/ \A i \in 1..Len(messages) :
                       ~HasTranscriptId(messages[i], a.transcript_id)
      [] op = "get_email" -> a.message_pk \notin MessagePks
      [] op = "get_event_details" -> a.event_pk \notin EventPks
      [] op = "get_attachment" ->
            a.attachment_index >= Cardinality(AttachmentsOf(a.message_pk))
      [] OTHER -> FALSE

\* the lookup a tool call has made, when it has made one
MadeLookup ==
    /\ ToolAnswered
    /\ result.args.name \in LookupTools
    /\ result.out.invoked # "none"

\* what each lookup tool says when there is no row
NotFoundOf(name) ==
    CASE name = "get_meeting_transcript" -> "Transcript not found"
      [] name = "get_email" -> "Email not found"
      [] name = "get_event_details" -> "Event not found"
      [] name = "get_attachment" -> "Attachment not found"

\* C15: a lookup by identifier that matches no row (get_transcript by
\* message_pk or transcript_id, get_email, get_event_details, get_attachment
\* by index) returns None and never raises, and the dispatch shim answers
\* it with the plain text '... not found', which is no 'Error: ...' text.
C15_AbsentLookupClaim ==
    /\ (result # NoResult /\ NoRowMatches(result.op, result.args)) =>
          ~result.out.raised /\ ~result.out.found
    /\ (MadeLookup /\ NoRowMatches(result.out.invoked, result.out.a)) =>
          /\ ~result.out.out.raised
          /\ AnswersText(result.out, NotFoundOf(result.args.name))
          /\ result.out.message = ""

\* the part of C15 that holds: lookups by primary key and by index
C15_AbsentByKey ==
    /\ (/\ result # NoResult
        /\ NoRowMatches(result.op, result.args)
        /\ result.op = "get_transcript" => result.args.message_pk \notin {NoPk, 0}) =>
          ~result.out.raised /\ ~result.out.found
    /\ (MadeLookup /\ NoRowMatches(result.out.invoked, result.out.a)) =>
          /\ ~result.out.out.raised
          /\ AnswersText(result.out, NotFoundOf(result.args.name))
          /\ result.out.message = ""

\* the operations C16 names
MetadataReaders ==
    {"list_transcripts", "get_transcript", "search_transcripts", "get_statistics",
     "list_emails", "search_emails"}

SomeMalformed == \E i \in 1..Len(messages) : MalformedMeta(messages[i])

\* C16: a message whose metadata is malformed JSON never makes a query
\* fail: with such a row in the store list_transcripts, get_transcript,
\* search_transcripts, get_statistics, list_emails and search_emails return
\* a result instead of raising.
C16_MalformedToleratedClaim ==
    (result # NoResult /\ result.op \in MetadataReaders /\ SomeMalformed) =>
        ~result.out.raised

\* the operations that do tolerate it: the ones that do not hand the blob
\* to json_extract
C16_ToleratedWithoutJsonExtract ==
    (/\ result # NoResult
     /\ SomeMalformed
     /\ \/ result.op \in {"search_transcripts", "search_emails", "list_emails"}
        \/ result.op = "get_transcript" /\ result.args.message_pk \notin {NoPk, 0}) =>
        ~result.out.raised

----------------------------------------------------------------------------
(* Vocabulary of the claims about connections and stores.                  *)

\* no database occurs twice among the connections a call has opened
OncePerDatabase(opened) ==
    \A i, j \in 1..Len(opened) : opened[i] = opened[j] => i = j

\* C17: every operation of the data access layer opens at most one
\* connection per database and has closed every connection it opened when
\* it returns, also when it ends in an error; so after any sequence of tool
\* calls no database connection is open.
C17_ConnectionsReleasedClaim ==
    /\ conns = {}
    /\ ToolAnswered => OncePerDatabase(result.out.opened)

\* what does hold: a call that returns a result has closed its connections
C17_ReleasedOnReturn ==
    [][(IsCall("call_tool") /\ ~result'.out.out.raised) =>
          conns' = conns /\ OncePerDatabase(result'.out.opened)]_vars

\* the tools that write: a PDF output file, or the templates directory
PdfWriters == {"fill_pdf_form", "sign_pdf", "fill_and_sign_pdf", "annotate_pdf",
               "fill_from_template"}
TemplateWriters == {"save_pdf_template", "delete_pdf_template"}

\* the document apart from its output files
Input(d) == [k \in DOMAIN d \ {"outputs"} |-> d[k]]

\* C18: no step changes the message store, the attachments, the full-text
\* index or the calendar store; every connection of a tool call is read-only
\* and query-only and every statement it executes is a read; the attachment
\* cache, the database files and the input document stay as they are; output
\* files appear only in calls of the PDF writing tools and the templates
\* change only in calls of save_pdf_template and delete_pdf_template.
C18_StoresReadOnly ==
    [][/\ messages' = messages /\ attachments' = attachments /\ fts' = fts
       /\ events' = events /\ attendees' = attendees
       /\ cache' = cache /\ dbFiles' = dbFiles
       /\ Input(doc') = Input(doc)
       /\ IsCall("call_tool") =>
            /\ result'.out.connection.mode = "ro"
            /\ result'.out.connection.query_only
            /\ result'.out.statements \subseteq ReadVerbs
       /\ doc'.outputs # doc.outputs =>
            IsCall("call_tool") /\ result'.args.name \in PdfWriters
       /\ templates' # templates =>
            IsCall("call_tool") /\ result'.args.name \in TemplateWriters]_vars

\* after calls that read the three databases and calls that wrote an output
\* file and a template, the stores are those of the initial state
C18_Witness ==
    /\ ToolAnswered /\ result.args.name = "get_email" /\ ~IsNone(result.out.out)
    /\ result.out.statements = {"SELECT"}
    /\ "_filled.pdf" \in doc.outputs
    /\ templates["nda"].exists
    /\ fts = SubSeq(FtsPool, 1, 3) /\ events = SubSeq(EventPool, 1, 3)
    /\ Len(messages) = 3

\* the constructor has returned or raised
Constructed == result # NoResult /\ result.op = "SparkDatabase"

\* C19: the construction of the data access layer raises FileNotFoundError,
\* with no connection opened, when one of the three database files is
\* absent, and succeeds only when all three exist; the server serves tool
\* calls only after a construction that succeeded, so a tool call is never
\* taken with one or two of the databases.
C19_AllOrNothing ==
    [][/\ IsCall("SparkDatabase") =>
            /\ result'.out.raised <=> dbFiles # DbNames
            /\ result'.out.raised =>
                  /\ result'.out.error = "FileNotFoundError"
                  /\ server' = "failed"
                  /\ conns' = {}
            /\ ~result'.out.raised => server' = "serving"
       /\ server = "failed" => server' = "failed"
       /\ server' = "serving" => dbFiles = DbNames
       /\ IsCall("call_tool") => server = "serving" /\ dbFiles = DbNames]_vars

\* the calendar database alone is absent: the constructor has raised and the
\* server has failed
C19_Witness ==
    /\ Constructed
    /\ dbFiles = {"messages", "search"}
    /\ result.out.raised /\ result.out.error = "FileNotFoundError"
    /\ result.out.message = "Calendar database not found"
    /\ server = "failed"

\* the rows of the index that match the query, whatever their order
HitsOf(query) == {i \in 1..Len(fts) : query \in fts[i].terms}

\* every item is a hit of the query with the score of that hit, and of two
\* items the later one is a hit the engine ranks no better
InRankOrder(items, query) ==
    /\ \A i \in 1..Len(items) :
          \E h \in HitsOf(query) :
             /\ fts[h].messagePk = items[i].messagePk
             /\ items[i].relevanceScore = 0 - fts[h].rank
    /\ \A i, j \in 1..Len(items) :
          i < j => items[i].relevanceScore >= items[j].relevanceScore

\* C20: the results of search_emails and search_transcripts are hits of the
\* query in the rank order of the index, by non-increasing relevanceScore, and
\* find_action_items returns its emails by descending relevanceScore.
C20_RankOrder ==
    /\ \A op \in {"search_emails", "search_transcripts"} :
          Returned(op) => InRankOrder(result.out.items, result.args.query)
    /\ Returned("find_action_items") => InRankOrder(result.out.items, ActionQuery)

\* search_emails has returned two emails in rank order, and the hit ranked
\* between them, a transcript, is left out
C20_Witness ==
    /\ Returned("search_emails")
    /\ Len(result.out.items) = 2
    /\ result.out.items[1].relevanceScore > result.out.items[2].relevanceScore
    /\ \E h \in HitsOf(result.args.query) :
          /\ 0 - fts[h].rank < result.out.items[1].relevanceScore
          /\ 0 - fts[h].rank > result.out.items[2].relevanceScore
          /\ \E i \in 1..Len(messages) : messages[i].pk = fts[h].messagePk

(***************************************************************************)
(* Vocabulary of the claims about assembled WHERE clauses.                 *)
(***************************************************************************)

WhereOps == {"list_transcripts", "list_emails", "search_transcripts", "search_emails",
             "search_attachments"}

\* every fragment an operation has, in the order the operation appends them
ClauseOrder(op) ==
    CASE op = "list_transcripts" ->
            <<"meta LIKE '%mtid%'", "json_extract(meta, '$.mtskp') = 1",
              "receivedDate >= ?", "receivedDate <= ?",
              "json_extract(meta, '$.mtes') IS NOT NULL">>
      [] op = "list_emails" ->
            <<"(meta NOT LIKE '%mtid%' OR meta IS NULL)", "inInbox = 1", "inSent = 1",
              "inDrafts = 1", "unseen = 1", "receivedDate >= ?", "receivedDate <= ?",
              "messageFrom LIKE ?">>
      [] op = "search_emails" ->
            <<"pk IN (?)", "(meta NOT LIKE '%mtid%' OR meta IS NULL)",
              "receivedDate >= ?", "receivedDate <= ?">>
      [] op = "search_transcripts" ->
            <<"pk IN (?)", "meta LIKE '%mtid%'", "receivedDate >= ?", "receivedDate <= ?">>
      [] op = "search_attachments" ->
            <<"a.attachmentName LIKE ?", "a.attachmentMIMEType LIKE ?",
              "a.attachmentMIMEType = ?">>

\* the fragment belongs to every clause of its operation, or to a filter the
\* call gives
PresentFragment(a, sql) ==
    CASE sql \in {"meta LIKE '%mtid%'", "(meta NOT LIKE '%mtid%' OR meta IS NULL)",
                  "pk IN (?)"} -> TRUE
      [] sql = "json_extract(meta, '$.mtskp') = 1" -> a.only_kept
      [] sql = "json_extract(meta, '$.mtes') IS NOT NULL" -> ~a.include_ad_hoc
      [] sql = "receivedDate >= ?" -> a.start_date # NoDate
      [] sql = "receivedDate <= ?" -> a.end_date # NoDate
      [] sql = "inInbox = 1" -> a.folder = "inbox"
      [] sql = "inSent = 1" -> a.folder = "sent"
      [] sql = "inDrafts = 1" -> a.folder = "drafts"
      [] sql = "unseen = 1" -> a.unread_only
      [] sql = "messageFrom LIKE ?" -> a.sender # NoText
      [] sql = "a.attachmentName LIKE ?" -> a.filename # NoText
      [] sql = "a.attachmentMIMEType LIKE ?" ->
            a.mime_type # NoText /\ a.mime_type[Len(a.mime_type)] = "*"
      [] sql = "a.attachmentMIMEType = ?" ->
            a.mime_type # NoText /\ a.mime_type[Len(a.mime_type)] # "*"
      [] OTHER -> FALSE

\* the parameters of a fragment are the value of its filter
BoundValue(a, sql, ps) ==
    CASE sql = "pk IN (?)" ->
            /\ ps # <<>>
            /\ \A i \in 1..Len(ps) :
                  \E h \in 1..Len(fts) :
                     fts[h].messagePk = ps[i] /\ a.query \in fts[h].terms
      [] sql = "receivedDate >= ?" -> ps = <<a.start_date * Day>>
      [] sql = "receivedDate <= ?" -> ps = <<a.end_date * Day>>
      [] sql = "messageFrom LIKE ?" -> ps = <<a.sender>>
      [] sql = "a.attachmentName LIKE ?" ->
            /\ Len(ps) = 1 /\ Len(ps[1]) = Len(a.filename)
            /\ \A i \in 1..Len(ps[1]) :
                  ps[1][i] = (IF a.filename[i] = "*" THEN "%" ELSE a.filename[i])
      [] sql = "a.attachmentMIMEType LIKE ?" ->
            ps = <<SubSeq(a.mime_type, 1, Len(a.mime_type) - 1) \o <<"%">>>>
      [] sql = "a.attachmentMIMEType = ?" -> ps = <<a.mime_type>>
      [] OTHER -> ps = <<>>

\* the statement's clause is the fragments of op that are present, in the
\* order of op, and its parameters are theirs in that order, followed by the
\* values of the placeholders after the clause
WellAssembled(op, a, st) ==
    LET Present(sql) == PresentFragment(a, sql)
        expected == SelectSeq(ClauseOrder(op), Present)
        marks == ParamsBefore(st.where, Len(st.where) + 1)
    IN /\ [k \in 1..Len(st.where) |-> st.where[k].sql] = expected
       /\ Len(st.params) = marks + st.tail
       /\ \A k \in 1..Len(st.where) :
             BoundValue(a, st.where[k].sql,
                 SubSeq(st.params, ParamsBefore(st.where, k) + 1,
                        ParamsBefore(st.where, k) + st.where[k].np))
       /\ SubSeq(st.params, marks + 1, Len(st.params)) =
             (IF st.tail = 2 THEN <<a.limit, a.offset>>
              ELSE IF st.tail = 1 THEN <<a.limit>> ELSE <<>>)

\* an operation that assembles a clause has ended, with its statements traced
Assembled ==
    /\ result # NoResult /\ result.op \in WhereOps
    /\ "statements" \in DOMAIN result.out

\* search_attachments called with neither filter
Unfiltered ==
    /\ result.op = "search_attachments"
    /\ result.args.filename = NoText /\ result.args.mime_type = NoText

\* C21: in every statement of list_transcripts, list_emails,
\* search_transcripts, search_emails and search_attachments the WHERE clause
\* is the AND-join of the fragments of the filters that are present, in the
\* operation's fixed order, with nothing standing for an absent filter, and
\* the parameters are those of the present fragments in the same order, so
\* placeholders and parameters agree in number in the count and page query.
C21_WhereAssemblyClaim ==
    Assembled =>
        \A i \in 1..Len(result.out.statements) :
            WellAssembled(result.op, result.args, result.out.statements[i])

\* C21, apart from search_attachments without a filter: every other clause is
\* assembled as claimed, and the count and the page query of a list
\* operation share the clause and the parameters
C21_AssembledWhenFiltered ==
    (Assembled /\ ~Unfiltered) =>
        /\ \A i \in 1..Len(result.out.statements) :
              WellAssembled(result.op, result.args, result.out.statements[i])
        /\ Len(result.out.statements) = 2 =>
              /\ result.out.statements[1].where = result.out.statements[2].where
              /\ result.out.statements[2].params =
                    result.out.statements[1].params
                        \o <<result.args.limit, result.args.offset>>

\* the events of the store whose start lies in the window of the call
InWindow(a) ==
    {i \in 1..Len(events) :
        /\ events[i].dstart >= WindowStart(a, nowMs)
        /\ events[i].dstart < WindowEnd(a, nowMs)}

\* C22: the total of list_events is the number of events whose start lies in
\* the requested window, whatever the limit.
C22_EventsTotalClaim ==
    Returned("list_events") => result.out.total = Cardinality(InWindow(result.args))

\* C22, what list_events reports: the number of events on its page, which is the
\* number in the window cut at the limit
C22_TotalIsPageLength ==
    Returned("list_events") =>
        /\ result.out.total = Len(result.out.items)
        /\ result.out.total = Min(Cardinality(InWindow(result.args)), result.args.limit)

\* get_attachment has found its row
FoundAttachment == Returned("get_attachment") /\ result.out.found

\* the two places of the file of the attachment get_attachment has found
PrimaryPath == CachePath("1", result.args.message_pk, result.out.filename)
LegacyPath == CachePath("", result.args.message_pk, result.out.filename)

\* C23: for an attachment row that exists get_attachment does not raise; it
\* takes the file at messagesData/1/<messagePk>/<filename> when that exists,
\* else the one at messagesData/<messagePk>/<filename>, and with neither it
\* returns contentType 'not_downloaded'; content is read only from a path
\* that exists.
C23_CachePaths ==
    /\ (result.op = "get_attachment" /\ "found" \in DOMAIN result.out) =>
          ~result.out.raised
    /\ FoundAttachment =>
          /\ PrimaryPath \in cache =>
                result.out.path = PrimaryPath /\ result.out.contentType # "not_downloaded"
          /\ (PrimaryPath \notin cache /\ LegacyPath \in cache) =>
                result.out.path = LegacyPath /\ result.out.contentType # "not_downloaded"
          /\ (PrimaryPath \notin cache /\ LegacyPath \notin cache) =>
                result.out.contentType = "not_downloaded"
          /\ result.out.contentType # "not_downloaded" => result.out.path \in cache

\* both files of a.pdf exist and the one under messagesData/1 is read
C23_Witness ==
    /\ FoundAttachment
    /\ result.out.filename = "a.pdf"
    /\ PrimaryPath \in cache /\ LegacyPath \in cache
    /\ result.out.path = PrimaryPath
    /\ result.out.contentType = "extracted_text"

\* C24: every email find_action_items returns is a full-text hit of the
\* action query, was received at or after now - days * 86400 and is not
\* marked as a transcript; the list is in descending relevance score and has
\* at most limit entries.
C24_ActionItems ==
    Returned("find_action_items") =>
        /\ \A pk \in ItemPks(result.out) :
              /\ pk \in HitPks(ActionQuery)
              /\ pk \in StoredPks
              /\ ByPk(pk).receivedDate >= (nowMs \div 1000) - result.args.days * Day
              /\ ~Marked(ByPk(pk))
        /\ \A i, j \in 1..Len(result.out.items) :
              i < j => result.out.items[i].relevanceScore
                          >= result.out.items[j].relevanceScore
        /\ Len(result.out.items) <= result.args.limit

\* one recent email is returned; an older mail and a transcript, both stored
\* hits of the action query, are left out
C24_Witness ==
    /\ Returned("find_action_items")
    /\ Len(result.out.items) = 1
    /\ result.args.days = 3
    /\ \E pk \in HitPks(ActionQuery) \cap StoredPks :
          /\ ~Marked(ByPk(pk))
          /\ ByPk(pk).receivedDate < (nowMs \div 1000) - result.args.days * Day
    /\ \E pk \in HitPks(ActionQuery) \cap StoredPks : Marked(ByPk(pk))

\* a signature placed by y alone: sign_pdf or fill_and_sign_pdf has returned,
\* y was given, and neither yFromTop nor a signature field was
PlacedByY ==
    /\ \/ Returned("sign_pdf")
       \/ /\ Returned("fill_and_sign_pdf")
          /\ result.args.y_from_top = NoCoord
          /\ result.args.signature_field = NoField
    /\ result.args.y # NoCoord

\* C25: a signature placed by y alone lies y above the bottom edge of its
\* page: on a page of height H its vertical position from the top is H - y,
\* for the top or for the bottom edge of the rectangle.
C25_FromBottomClaim ==
    PlacedByY =>
        LET H == doc.pages[result.out.page].height
        IN \/ result.out.rect.y0 = H - result.args.y
           \/ result.out.rect.y1 = H - result.args.y

\* C25, what the code does: y is the distance of the top edge of the
\* rectangle from the top of the page
C25_YIsTopEdge ==
    PlacedByY =>
        /\ result.out.rect.y0 = result.args.y
        /\ result.out.rect.y1 = result.args.y + SigHeight(result.args.width, doc.image)

\* the page a page number selects on a document of n pages, 0 for none
Selects(p, n) == IF p = -1 THEN n ELSE IF 1 <= p /\ p <= n THEN p ELSE 0

RECURSIVE PagesSelected(_, _)
\* the pages the items select, in order, without the items that select none
PagesSelected(items, n) ==
    IF items = <<>> THEN <<>>
    ELSE (IF Selects(items[1].page, n) = 0 THEN <<>>
          ELSE <<Selects(items[1].page, n)>>)
         \o PagesSelected(Tail(items), n)

\* the pages of the texts placed
PagesOf(texts) == [i \in 1..Len(texts) |-> texts[i].page]

\* the call that starts in this step has the PDF it names
PdfCall(op) == IsCall(op) /\ PathExists(result'.args.pdf_path)

\* C26: every PDF operation selects the last page for -1, page p for
\* 1 <= p <= N and no page for any other number.  A signature on a page
\* number that selects none ends in an error with no output file; a text
\* annotation or a template field that selects none is skipped and not
\* counted while the others are placed and saved; the page reported is the
\* page used.
C26_PageResolution ==
    [][LET n == Len(doc.pages)
           a == result'.args
           out == result'.out
       IN /\ (PdfCall("sign_pdf") \/ PdfCall("fill_and_sign_pdf")) =>
                /\ Selects(a.page, n) = 0 => out.raised /\ doc' = doc
                /\ Selects(a.page, n) # 0 =>
                      ~out.raised /\ out.page = Selects(a.page, n)
          /\ (PdfCall("fill_and_sign_pdf") /\ ~out.raised) =>
                /\ PagesOf(out.texts) = PagesSelected(a.text_annotations, n)
                /\ out.annotationsAdded = Len(PagesSelected(a.text_annotations, n))
                /\ "_filled_signed.pdf" \in doc'.outputs
          /\ PdfCall("annotate_pdf") =>
                /\ ~out.raised
                /\ PagesOf(out.texts) = PagesSelected(a.annotations, n)
                /\ out.annotationsAdded = Len(PagesSelected(a.annotations, n))
                /\ "_annotated.pdf" \in doc'.outputs
          /\ (PdfCall("fill_from_template") /\ ~out.raised) =>
                /\ PagesOf(out.texts) =
                      PagesSelected(templates[a.template_name].data.fields, n)
                /\ out.fieldsFilled =
                      Len(PagesSelected(templates[a.template_name].data.fields, n))
                /\ "_filled.pdf" \in doc'.outputs
          /\ (PdfCall("get_pdf_layout") /\ a.page # NoCoord) =>
                [i \in 1..Len(out.pages) |-> out.pages[i].pageNumber] =
                    PagesSelected(<<a>>, n)]_vars

\* page -2 on a document of two pages: the annotation is skipped and the
\* other one is placed on page 2
C26_Witness ==
    /\ Returned("annotate_pdf")
    /\ Len(doc.pages) = 2
    /\ result.args.annotations[1].page = 0 - 2
    /\ result.args.annotations[2].page = 2
    /\ result.out.annotationsAdded = 1
    /\ result.out.texts[1].page = 2
    /\ "_annotated.pdf" \in doc.outputs

\* the hits of the query that the index ranks before hit h
RankedBefore(h, query) == {g \in HitsOf(query) : fts[g].rank < fts[h].rank}

\* C27: search_emails and search_transcripts return at most limit results,
\* each of them one of the first 2*limit hits of the query by rank, report
\* their number as total, and never return a hit ranked after the first
\* 2*limit, also when fewer than limit results are returned.
C27_TopHits ==
    \A op \in {"search_emails", "search_transcripts"} :
       Returned(op) =>
          LET a == result.args
              items == result.out.items
          IN /\ Len(items) <= a.limit
             /\ result.out.total = Len(items)
             /\ \A i \in 1..Len(items) :
                   \E h \in HitsOf(a.query) :
                      /\ fts[h].messagePk = items[i].messagePk
                      /\ Cardinality(RankedBefore(h, a.query)) < 2 * a.limit
             /\ \A h \in HitsOf(a.query) :
                   Cardinality(RankedBefore(h, a.query)) >= 2 * a.limit
                      => fts[h].messagePk \notin ItemPks(result.out)

\* search_emails with limit 1 returns nothing: the two best hits are not
\* emails of the store, and the stored email that matches is the third hit
C27_Witness ==
    /\ Returned("search_emails")
    /\ result.args.limit = 1
    /\ result.args.start_date = NoDate
    /\ result.out.items = <<>>
    /\ result.out.total = 0
    /\ \E h \in HitsOf(result.args.query) :
          /\ Cardinality(RankedBefore(h, result.args.query)) = 2
          /\ \E m \in Stored : m.pk = fts[h].messagePk /\ ~Marked(m)

\* the call names a tool and gives every argument of its schema's required
\* list a value, whatever the value
SuppliesRequired(call) ==
    /\ call.name \in ToolNames
    /\ \A arg \in SchemaRequired(call.name) :
          arg \in DOMAIN call.arguments /\ call.arguments[arg] # VNull

\* the answer says that some argument is required
AnswersRequired(call, out) ==
    \/ \E arg \in SchemaRequired(call.name) :
          AnswersText(out, "Error: " \o arg \o " required")
    \/ AnswersText(out, "Error: fields or checkboxes required")

\* C28: a tool call that supplies every argument its schema marks as
\* required is never answered '<argument> required', whatever the values
\* supplied: messagePk = 0, eventPk = 0, an empty fields list, an empty
\* values map, or fill_pdf_form with filePath only.
C28_SuppliedIsServedClaim ==
    [][(IsCall("call_tool") /\ SuppliesRequired(result'.args)) =>
          ~AnswersRequired(result'.args, result'.out)]_vars

\* the values Python takes for true
Truthy(call, arg) == arg \in DOMAIN call.arguments /\ ~Falsy(call.arguments[arg])

\* C28, what the handlers do: a call whose required arguments are all
\* supplied with a value other than 0, "", [] and {}, and which for
\* fill_pdf_form has such a value for fields or checkboxes, is never
\* answered '<argument> required'.
C28_NonEmptyIsServed ==
    [][(/\ IsCall("call_tool")
        /\ SuppliesRequired(result'.args)
        /\ \A arg \in SchemaRequired(result'.args.name) : Truthy(result'.args, arg)
        /\ result'.args.name = "fill_pdf_form" =>
              Truthy(result'.args, "fields") \/ Truthy(result'.args, "checkboxes"))
          => ~AnswersRequired(result'.args, result'.out)]_vars

\* what get_attachment returns for entry i of the list in the same state
Fetched(i) ==
    get_attachment([message_pk |-> result.args.message_pk, attachment_index |-> i - 1,
                    extract_text |-> TRUE], attachments, cache)

\* entry i of the list is the attachment get_attachment returns for its index
SameAttachment(i) ==
    /\ Fetched(i).found
    /\ Fetched(i).attachmentPk = result.out.items[i].attachmentPk
    /\ Fetched(i).filename = result.out.items[i].filename
    /\ result.out.items[i].index = i - 1

\* entry i is reported as downloaded iff get_attachment returns content
SameDownloaded(i) ==
    result.out.items[i].isDownloaded <=> Fetched(i).contentType # "not_downloaded"

\* the row of entry i has a stored name
Named(i) ==
    AttachmentRows(result.args.message_pk, attachments)[i].attachmentName # NoName

\* C29: for every message and index i the entry with index i of
\* list_attachments is the row get_attachment returns for i, with the same
\* attachmentPk and filename, and it has isDownloaded = true iff
\* get_attachment returns content, also for a row whose stored name is null.
C29_ListAgreesClaim ==
    Returned("list_attachments") =>
        \A i \in 1..Len(result.out.items) : SameAttachment(i) /\ SameDownloaded(i)

\* C29, what the code does: the entries agree with get_attachment in
\* attachmentPk, filename and index for every row, and in isDownloaded for
\* the rows that have a stored name; a row without one is never reported as
\* downloaded.
C29_ListAgreesWhenNamed ==
    Returned("list_attachments") =>
        \A i \in 1..Len(result.out.items) :
           /\ SameAttachment(i)
           /\ Named(i) => SameDownloaded(i)
           /\ ~Named(i) => ~result.out.items[i].isDownloaded

\* the values map has an entry for the field
HasEntry(f) ==
    /\ f.fieldName \in DOMAIN result.args.values
    /\ result.args.values[f.fieldName] # NoneValue

\* a signature image is available to the call: the one it names, or else
\* the configured one
ImageAvailable ==
    IF result.args.signature_image_path # NoPath
    THEN PathExists(result.args.signature_image_path)
    ELSE doc.defaultSig

\* the fields of the template that may get the signature image
Signable ==
    {i \in 1..Len(StoredFields) :
        /\ IsSignature(StoredFields[i])
        /\ result.args.sign
        /\ HasEntry(StoredFields[i])
        /\ ImageAvailable
        /\ Selects(StoredFields[i].page, Len(doc.pages)) # 0}

\* C30: fill_from_template inserts a signature image for a field only if
\* the field is of type signature, sign is true, the values map has an entry
\* of its name, a signature image is available and its page is valid; a
\* signature field is never written as text nor counted in fieldsFilled; and
\* with sign = true and no entry for the signature field signatureAdded is
\* false.
C30_SignatureFields ==
    Returned("fill_from_template") =>
        /\ Len(result.out.images) <= Cardinality(Signable)
        /\ \A k \in 1..Len(result.out.images) :
              \E i \in Signable :
                 /\ result.out.images[k].page =
                       Selects(StoredFields[i].page, Len(doc.pages))
                 /\ result.out.images[k].rect.x0 = StoredFields[i].x
        /\ result.out.signatureAdded => result.out.images # <<>>
        /\ \A k \in 1..Len(result.out.texts) :
              \A i \in 1..Len(StoredFields) :
                 StoredFields[i].fieldName = result.out.texts[k].fieldName
                    => ~IsSignature(StoredFields[i])
        /\ result.out.fieldsFilled = Len(result.out.texts)
        /\ result.out.fieldsFilled <= Len(NonSignature(StoredFields))
        /\ (/\ result.args.sign
            /\ \A i \in 1..Len(StoredFields) :
                  IsSignature(StoredFields[i]) =>
                     StoredFields[i].fieldName \notin DOMAIN result.args.values)
              => ~result.out.signatureAdded

\* a template with a text field and a signature field is filled with
\* sign = true, a signature image available and no entry for the signature
\* field: the text is written, no image is inserted, signatureAdded is false
C30_Witness ==
    /\ Returned("fill_from_template")
    /\ result.args.sign /\ ImageAvailable
    /\ Len(StoredFields) = 2
    /\ StoredFields[1].fieldName = "name" /\ StoredFields[2].fieldName = "sig"
    /\ "sig" \notin DOMAIN result.args.values
    /\ result.out.fieldsFilled = 1
    /\ result.out.images = <<>>
    /\ ~result.out.signatureAdded

====
